---- MODULE Spec2Model ----
(***************************************************************************)
(* Cross-chain arbitrage: the Opportunity Engine (ArbitrageEngine), the    *)
(* swap coordinator (DEXManager) with its two venue adapters, and the      *)
(* bridge coordinator (BridgeManager) with its three providers.            *)
(*                                                                         *)
(* JavaScript runs the engine on one thread; an async function runs        *)
(* without interruption up to its next `await`.  Every action below is one *)
(* such uninterrupted stretch of ArbitrageEngine code, named after the     *)
(* await whose settlement starts it.  Slots 1..MaxCalls are the callers'   *)
(* executeArbitrage promises; a slot whose call has settled is reused.     *)
(*                                                                         *)
(* Numbers: token amounts and prices are bigint in the source and plain    *)
(* integers here.  The venue quote floor(Number(a) * (1 - fee)) is written *)
(* with integer division (equal to the double computation for every        *)
(* amount used here).  calculatePriceDifference returns a double           *)
(* |p1-p2| / min(p1,p2); it is kept as an exact fraction [num, den] and    *)
(* compared by cross-multiplication, with den = 0 giving NaN or Infinity   *)
(* as the division does.                                                   *)
(***************************************************************************)
EXTENDS Integers, Sequences, FiniteSets, TLC

\* ------------------------------------------------------------------ bounds
MaxCalls == 2
MaxAdmitted == 2
MaxCycles == 102
MaxStartCalls == 3
MaxFetches == 2
MaxFetchCycles == 3

\* ------------------------------------------------------- program constants
AVALANCHE_CHAIN_ID == 43114
SONIC_CHAIN_ID == 146
BRIDGE_TIMEOUT == 300000
DEBRIDGE_POLL_INTERVAL == 15000
CCIP_POLL_INTERVAL == 30000
CCIP_DWELL == 600000
PHARAOH_FEE_E4 == 5
SHADOW_FEE_E4 == 8
SIMULATION_SLIPPAGE_DIVISOR == 1000
GAS_PRICE_GWEI == 20
maxConsecutiveErrors == 5
TWAP_WINDOW == 300000
MAX_PRICE_HISTORY == 100
TRADE_AMOUNT == 1000000
ESTIMATED_GAS_COST_GWEI == 4000000
BRIDGE_LEG_COST_GWEI == 1000000
TESTING_GROSS_PROFIT == 50000
PROFITABLE_ABOVE == 100000
PROFIT_THRESHOLD_USD_DEFAULT == 500000

Slots == 1..MaxCalls

Min(a, b) == IF a <= b THEN a ELSE b
Abs(a) == IF a < 0 THEN 0 - a ELSE a

\* bigint values beyond the checker's integers (amounts in wei), held as
\* g * 10^9 + u with 0 <= u < 10^9
GWEI == 1000000000
Big(g, u) == [g |-> g + (u \div GWEI), u |-> u % GWEI]
BigZero == Big(0, 0)
BigAdd(a, b) == Big(a.g + b.g, a.u + b.u)
BigSub(a, b) == Big(a.g - b.g, a.u - b.u)
BigLess(a, b) == a.g < b.g \/ (a.g = b.g /\ a.u < b.u)
BigTimes(n, a) == Big(n * a.g, n * a.u)

\* ------------------------------------------------ ArbitrageCalculator (pure)

\* calculatePriceDifference(price1, price2): |p1 - p2| / min(p1, p2) as a
\* fraction; the common factor 10^decimals cancels.
calculatePriceDifference(price1, price2) ==
    [num |-> Abs(price1 - price2), den |-> Min(price1, price2)]

IsNaN(f) == f.den = 0 /\ f.num = 0
IsInfinite(f) == f.den = 0 /\ f.num > 0

\* `a === b` on two price differences: NaN equals nothing, itself included
SameNumber(a, b) ==
    IF IsNaN(a) \/ IsNaN(b) THEN FALSE
    ELSE IF IsInfinite(a) \/ IsInfinite(b) THEN IsInfinite(a) /\ IsInfinite(b)
    ELSE a.num * b.den = b.num * a.den

\* `a >= 0` on a price difference: false on NaN
NonNegative(a) == ~IsNaN(a) /\ a.num >= 0 /\ a.den >= 0

\* calculateArbitrageProfit with the default six decimals; bigint division
\* truncates, and its operands are not negative here.  The quotient
\* (amount * priceDiff) / 10^6 is taken on the whole and the fractional part
\* of amount / 10^6 apart, which gives the same number and keeps the product
\* within the checker's integers.
calculateArbitrageProfit(buyPrice, sellPrice, amount) ==
    IF sellPrice <= buyPrice THEN 0
    ELSE LET priceDiff == sellPrice - buyPrice
         IN  (amount \div 1000000) * priceDiff
               + ((amount % 1000000) * priceDiff) \div 1000000

\* calculateNetProfit, on bigint values
calculateNetProfit_unclamped(grossProfit, gasCosts, bridgeCosts, slippageCosts) ==
    BigSub(grossProfit, BigAdd(BigAdd(gasCosts, bridgeCosts), slippageCosts))

calculateNetProfit(grossProfit, gasCosts, bridgeCosts, slippageCosts) ==
    LET totalCosts == BigAdd(BigAdd(gasCosts, bridgeCosts), slippageCosts)
    IN  IF BigLess(totalCosts, grossProfit) THEN BigSub(grossProfit, totalCosts)
        ELSE BigZero

\* sums over the price points of calculateTWAP's two reduce calls; the weight
\* of a point is timeWindowMs - (now - timestamp)
RECURSIVE TotalWeight(_, _, _)
TotalWeight(points, now, timeWindowMs) ==
    IF points = <<>> THEN 0
    ELSE (timeWindowMs - (now - Head(points).timestamp))
           + TotalWeight(Tail(points), now, timeWindowMs)

\* the weighted sum of the prices less `base`
RECURSIVE WeightedSumAbove(_, _, _, _)
WeightedSumAbove(points, now, timeWindowMs, base) ==
    IF points = <<>> THEN 0
    ELSE (Head(points).price - base) * (timeWindowMs - (now - Head(points).timestamp))
           + WeightedSumAbove(Tail(points), now, timeWindowMs, base)

RECURSIVE LeastPrice(_)
LeastPrice(points) ==
    IF Len(points) = 1 THEN points[1].price
    ELSE Min(points[1].price, LeastPrice(Tail(points)))

RECURSIVE GreatestPrice(_)
GreatestPrice(points) ==
    IF Len(points) = 1 THEN points[1].price
    ELSE LET g == GreatestPrice(Tail(points))
         IN  IF points[1].price >= g THEN points[1].price ELSE g

\* ArbitrageCalculator.calculateTWAP at time `now`: 0 when no point is within
\* the window or the weights add up to 0, else floor(weightedSum / totalWeight).
\* The sums are exact in doubles at these sizes.  The quotient is taken on
\* the prices less the least price, to which the least price is added back:
\* the same number, within the checker's integers.
calculateTWAP(priceHistory, now, timeWindowMs) ==
    LET relevantPrices == SelectSeq(priceHistory, LAMBDA p : now - p.timestamp <= timeWindowMs)
    IN  IF relevantPrices = <<>> THEN 0
        ELSE LET totalWeight == TotalWeight(relevantPrices, now, timeWindowMs)
                 base == LeastPrice(relevantPrices)
             IN  IF totalWeight = 0 THEN 0
                 ELSE base + (WeightedSumAbove(relevantPrices, now, timeWindowMs, base)
                                \div totalWeight)

\* PriceMonitor.getPriceHistory with a maxAge, at time `now`
getPriceHistory(history, now, maxAge) ==
    SelectSeq(history, LAMBDA p : p.timestamp >= now - maxAge)

\* PriceMonitor.getTWAP at time `now`; calculateTWAP reads the clock again,
\* `elapsed` ms later.  null is [isNull |-> TRUE].
getTWAP(history, now, elapsed, timeWindowMs) ==
    LET inWindow == getPriceHistory(history, now, timeWindowMs)
    IN  IF inWindow = <<>> THEN [isNull |-> TRUE, price |-> 0]
        ELSE [isNull |-> FALSE,
              price |-> calculateTWAP(inWindow, now + elapsed, timeWindowMs)]

\* ------------------------------------------- PriceMonitor (price conversion)

\* A uint160 or larger value m * 2^e, kept exact: sqrtPriceX96 and the
\* prices made from it exceed the checker's integers.  e is never negative.
RECURSIVE Pow2(_)
Pow2(e) == IF e = 0 THEN 1 ELSE 2 * Pow2(e - 1)

RECURSIVE Dy(_, _)
Dy(m, e) == IF m # 0 /\ m % 2 = 0 THEN Dy(m \div 2, e + 1)
            ELSE [m |-> m, e |-> IF m = 0 THEN 0 ELSE e]

DyInt(n) == Dy(n, 0)

\* a < n and a > n for a small integer n
DyBelow(a, n) == IF a.e > 30 THEN FALSE ELSE a.m < (n + Pow2(a.e) - 1) \div Pow2(a.e)
DyAbove(a, n) == IF a.e > 30 THEN a.m > 0 ELSE a.m > n \div Pow2(a.e)

\* whether n is a power of two, and its exponent
RECURSIVE Log2(_)
Log2(n) == IF n <= 1 THEN 0 ELSE 1 + Log2(n \div 2)
IsPow2(n) == n = Pow2(Log2(n))

\* floor((sqrtPriceX96 / 2^96)^2 * 10^6) for sqrtPriceX96 = n * 2^e, the
\* priceBigInt of sqrtPriceX96ToPrice with equal decimals; the doubles are
\* exact for the mantissas used here.  10^6 = 15625 * 2^6.
PrimaryPrice(n, e) ==
    LET j == 96 - e
    IN  IF j <= 3 THEN Dy(n * n * 15625, 6 - 2 * j)
        ELSE IF j > 18 THEN DyInt(0)
        ELSE DyInt((n * n * 15625) \div Pow2(2 * (j - 3)))

\* alternativeV3PriceCalculation for sqrtPriceX96 = n * 2^e, n > 0: the
\* integer ratio sqrtPriceX96^2 / 2^192 scaled by 10^6, or the inverse ratio
\* scaled when that ratio is 0
alternativeV3PriceCalculation(n, e) ==
    LET j == 96 - e
        priceRatio == IF j <= 0 THEN Dy(n * n, 0 - 2 * j)
                      ELSE IF j > 15 THEN DyInt(0)
                      ELSE DyInt((n * n) \div Pow2(2 * j))
    IN  IF priceRatio.m = 0
        THEN IF IsPow2(n) THEN Dy(15625, 2 * j - 2 * Log2(n) + 6)
             ELSE Dy((Pow2(2 * j) \div (n * n)) * 15625, 6)
        ELSE Dy(priceRatio.m * 15625, priceRatio.e + 6)

\* PriceMonitor.sqrtPriceX96ToPrice(n * 2^e, 6, 6)
sqrtPriceX96ToPrice_primaryOnly(n, e) == PrimaryPrice(n, e)

sqrtPriceX96ToPrice(n, e) ==
    IF n = 0 THEN DyInt(1000000)
    ELSE LET priceBigInt == PrimaryPrice(n, e)
             outside == DyBelow(priceBigInt, 500000) \/ DyAbove(priceBigInt, 2000000)
             alternativePrice == alternativeV3PriceCalculation(n, e)
         IN  IF outside /\ alternativePrice.m > 0 THEN alternativePrice
             ELSE IF priceBigInt.m > 0 THEN priceBigInt
             ELSE DyInt(1000000)

\* The double comparison `a < b * 0.5` of validateOpportunity on two price
\* differences: false when either side is NaN, IEEE order on Infinity.
LessThanHalf_strictOff(a, b) ==
    IF IsNaN(a) \/ IsNaN(b) THEN FALSE
    ELSE IF IsInfinite(a) THEN FALSE
    ELSE IF IsInfinite(b) THEN TRUE
    ELSE 2 * a.num * b.den <= b.num * a.den

LessThanHalf(a, b) ==
    IF IsNaN(a) \/ IsNaN(b) THEN FALSE
    ELSE IF IsInfinite(a) THEN FALSE
    ELSE IF IsInfinite(b) THEN TRUE
    ELSE 2 * a.num * b.den < b.num * a.den

\* ------------------------------------------------------ swap venue adapters

\* PharaohDEXService.getSwapQuoteExactIn: amountOut = floor(amountIn * 0.9995).
\* The product is taken on the ten-thousands of amountIn and on the rest
\* apart, which gives the same number within the checker's integers.
PharaohQuote_feeAdded(amountIn) ==
    (amountIn \div 10000) * (10000 + PHARAOH_FEE_E4)
      + ((amountIn % 10000) * (10000 + PHARAOH_FEE_E4)) \div 10000

PharaohQuote(amountIn) ==
    (amountIn \div 10000) * (10000 - PHARAOH_FEE_E4)
      + ((amountIn % 10000) * (10000 - PHARAOH_FEE_E4)) \div 10000

\* ShadowDEXService.getSwapQuoteExactIn: amountOut = floor(amountIn * 0.9992)
ShadowQuote(amountIn) ==
    (amountIn \div 10000) * (10000 - SHADOW_FEE_E4)
      + ((amountIn % 10000) * (10000 - SHADOW_FEE_E4)) \div 10000

Venues == {"pharaoh", "shadow"}

VenueQuote(venue, amountIn) ==
    IF venue = "pharaoh" THEN PharaohQuote(amountIn) ELSE ShadowQuote(amountIn)

\* What the chain can answer to a transaction the adapter writes: the write
\* is rejected before it is sent, waiting for the receipt fails, or the
\* transaction is mined, with success or reverted.
TxOutcomes == {"sendRejected", "receiptRejected", "reverted", "success"}

\* ensureTokenApproval(token, amount) with the allowance the chain reports:
\* the external operations it performed, the allowance afterwards, and
\* whether it threw.  The receipt of the approval is awaited and not read.
ensureTokenApproval(amount, allowance, approval) ==
    IF allowance >= amount
    THEN [ops |-> <<"allowance">>, approved |-> 0, allowance |-> allowance, threw |-> FALSE]
    ELSE IF approval = "sendRejected"
    THEN [ops |-> <<"allowance">>, approved |-> 0, allowance |-> allowance, threw |-> TRUE]
    ELSE IF approval = "receiptRejected"
    THEN [ops |-> <<"allowance", "approve">>, approved |-> 2 * amount,
          allowance |-> allowance, threw |-> TRUE]
    ELSE [ops |-> <<"allowance", "approve", "approveReceipt">>, approved |-> 2 * amount,
          allowance |-> IF approval = "success" THEN 2 * amount ELSE allowance,
          threw |-> FALSE]

\* executeSwapExactIn of a venue adapter: the external operations it
\* performed in order, the allowance at the time the swap transaction was
\* sent (-1 when none was), and the result it returns or the SwapError it
\* throws.  The receipt of the swap gives the gas used; its status is not read.
executeSwapExactIn(venue, amountIn, allowance, approval, swap, gasUsed) ==
    LET a == ensureTokenApproval(amountIn, allowance, approval)
        quoted == a.ops \o <<"quote">>
        failed(ops, sentAt) ==
            [ops |-> ops, approved |-> a.approved, allowanceAtSwap |-> sentAt,
             threw |-> TRUE, amountOut |-> 0, actualGasUsed |-> 0]
    IN  IF a.threw THEN failed(a.ops, -1)
        ELSE IF swap = "sendRejected" THEN failed(quoted, -1)
        ELSE IF swap = "receiptRejected" THEN failed(quoted \o <<"swap">>, a.allowance)
        ELSE [ops |-> quoted \o <<"swap", "swapReceipt">>, approved |-> a.approved,
              allowanceAtSwap |-> a.allowance, threw |-> FALSE,
              amountOut |-> VenueQuote(venue, amountIn), actualGasUsed |-> gasUsed]

\* executePlan, a swap step whose executeSwapStep settled with swapResult:
\* the status the step gets and the amount carried to the next step
swapStepOutcome(currentAmount, swapResult) ==
    IF swapResult.threw
    THEN [status |-> "failed", currentAmount |-> currentAmount]
    ELSE [status |-> "completed", currentAmount |-> swapResult.amountOut]

\* DEXManager.getAllQuotes with the default networks: each venue is asked in
\* its own try/catch; `failed` is the set of venues whose adapter threw.
\* `quotes` maps each venue that answered to its quote's amountOut; `threw`
\* tells whether getAllQuotes itself threw.
getAllQuotes_allOrNothing(amountIn, failed) ==
    [ threw |-> failed # {},
      quotes |-> IF failed = {} THEN [v \in Venues |-> VenueQuote(v, amountIn)]
                 ELSE [v \in {} |-> 0] ]

getAllQuotes(amountIn, failed) ==
    [ threw |-> FALSE,
      quotes |-> [v \in Venues \ failed |-> VenueQuote(v, amountIn)] ]

\* ArbitrageEngine.validateOpportunity on the result of getAllQuotes: the
\* error code it throws, or "none" when validation passes.
validateOpportunity_noAbort(currentQuotes, buyPrice, sellPrice) ==
    IF currentQuotes.threw THEN "SWAP_ERROR"
    ELSE IF ~("pharaoh" \in DOMAIN currentQuotes.quotes)
            \/ ~("shadow" \in DOMAIN currentQuotes.quotes)
    THEN "QUOTES_UNAVAILABLE"
    ELSE "none"

validateOpportunity(currentQuotes, buyPrice, sellPrice) ==
    LET quotes == currentQuotes.quotes
    IN
    IF currentQuotes.threw THEN "SWAP_ERROR"
    ELSE IF ~("pharaoh" \in DOMAIN quotes) \/ ~("shadow" \in DOMAIN quotes)
    THEN "QUOTES_UNAVAILABLE"
    ELSE IF LessThanHalf(calculatePriceDifference(quotes["pharaoh"], quotes["shadow"]),
                         calculatePriceDifference(buyPrice, sellPrice))
         THEN "PRICE_MOVED_AGAINST_US"
         ELSE "none"

\* Array.prototype.sort on availableQuotes with the comparator
\* (a, b) => Number(b.quote.amountOut - a.quote.amountOut): a stable sort by
\* amountOut descending, written as insertion from the left.
RECURSIVE InsertByAmountOut(_, _)
InsertByAmountOut(sorted, e) ==
    IF sorted = <<>> THEN <<e>>
    ELSE IF e.amountOut - Head(sorted).amountOut > 0
         THEN <<e>> \o sorted
         ELSE <<Head(sorted)>> \o InsertByAmountOut(Tail(sorted), e)

RECURSIVE SortByAmountOut(_)
SortByAmountOut(list) ==
    IF list = <<>> THEN <<>>
    ELSE InsertByAmountOut(SortByAmountOut(SubSeq(list, 1, Len(list) - 1)), list[Len(list)])

NoBestQuote == [dex |-> "none", amountOut |-> 0]

\* DEXManager.getBestQuote on the result of getAllQuotes: the entry it
\* returns, or the SwapError it throws.
getBestQuote_firstAvailable(allQuotes) ==
    LET quotes == allQuotes.quotes
        availableQuotes ==
            (IF "pharaoh" \in DOMAIN quotes
             THEN <<[dex |-> "pharaoh", amountOut |-> quotes["pharaoh"]]>> ELSE <<>>)
            \o (IF "shadow" \in DOMAIN quotes
                THEN <<[dex |-> "shadow", amountOut |-> quotes["shadow"]]>> ELSE <<>>)
    IN  IF allQuotes.threw \/ Len(availableQuotes) = 0
        THEN [threw |-> TRUE, error |-> "SWAP_ERROR", best |-> NoBestQuote]
        ELSE [threw |-> FALSE, error |-> "none", best |-> availableQuotes[1]]

getBestQuote(allQuotes) ==
    LET quotes == allQuotes.quotes
        availableQuotes ==
            (IF "pharaoh" \in DOMAIN quotes
             THEN <<[dex |-> "pharaoh", amountOut |-> quotes["pharaoh"]]>> ELSE <<>>)
            \o (IF "shadow" \in DOMAIN quotes
                THEN <<[dex |-> "shadow", amountOut |-> quotes["shadow"]]>> ELSE <<>>)
    IN  IF allQuotes.threw
        THEN [threw |-> TRUE, error |-> "SWAP_ERROR", best |-> NoBestQuote]
        ELSE IF Len(availableQuotes) = 0
        THEN [threw |-> TRUE, error |-> "SWAP_ERROR", best |-> NoBestQuote]
        ELSE [threw |-> FALSE, error |-> "none", best |-> SortByAmountOut(availableQuotes)[1]]

\* ---------------------------------------------------------- BridgeManager

\* BridgeManager.supportedChains
supportedChains(provider) == {AVALANCHE_CHAIN_ID, SONIC_CHAIN_ID}

\* BridgeManager.getBestBridgeStrategy(token, fromChainId, toChainId)
getBestBridgeStrategy_ignoresToken(token, fromChainId, toChainId) ==
    IF fromChainId \in supportedChains("debridge") /\ toChainId \in supportedChains("debridge")
    THEN [provider |-> "debridge", available |-> TRUE, reason |-> "DeBridge fallback"]
    ELSE [provider |-> "simulation", available |-> FALSE, reason |-> "No bridge supports"]

getBestBridgeStrategy(token, fromChainId, toChainId) ==
    LET debridgeAvailable == fromChainId \in supportedChains("debridge")
                             /\ toChainId \in supportedChains("debridge")
        ccipAvailable == fromChainId \in supportedChains("ccip")
                         /\ toChainId \in supportedChains("ccip")
    IN  IF token = "USDC" /\ ccipAvailable
        THEN [provider |-> "ccip", available |-> TRUE,
              reason |-> "CCIP required for USDC per project specifications"]
        ELSE IF token = "USDT" /\ debridgeAvailable
        THEN [provider |-> "debridge", available |-> TRUE,
              reason |-> "DeBridge optimal for USDT - cheapest viable bridge"]
        ELSE IF debridgeAvailable
        THEN [provider |-> "debridge", available |-> TRUE, reason |-> "DeBridge fallback"]
        ELSE IF ccipAvailable
        THEN [provider |-> "ccip", available |-> TRUE, reason |-> "CCIP fallback"]
        ELSE [provider |-> "simulation", available |-> FALSE, reason |-> "No bridge supports"]

\* BridgeManager.executeBridge, the provider it calls first: the simulation
\* provider when the strategy says so or simulation mode is on.
bridgeRoute(token, fromChainId, toChainId, simMode) ==
    LET strategy == getBestBridgeStrategy(token, fromChainId, toChainId)
    IN  IF strategy.provider = "simulation" \/ simMode THEN "simulation"
        ELSE strategy.provider

\* BridgeManager.executeSimulationBridge: estimatedOutput
simulationOutput_noSlippage(amount) == amount

simulationOutput(amount) == amount - (amount \div SIMULATION_SLIPPAGE_DIVISOR)

\* BridgeManager.simulateBridgeMonitoring: the promise resolves when the
\* timer of bridgeTime ms (60000 + Math.random() * 120000) fires; it has no
\* timeout and no rejecting path.
simulateBridgeMonitoring(bridgeTime) == [status |-> "completed", after |-> bridgeTime]

\* BridgeManager.executeSimulationBridge: the result it returns, with the
\* settlement of its monitoring promise
executeSimulationBridge(amount, bridgeTime) ==
    [ provider |-> "simulation",
      estimatedOutput |-> simulationOutput(amount),
      monitoring |-> simulateBridgeMonitoring(bridgeTime) ]

\* What one status request of DeBridge monitoring can give: an order status,
\* a response that is not ok, or a rejected fetch.
DeBridgeStatuses ==
    {"Created", "Fulfilled", "SentUnlock", "OrderCompleted", "ClaimCompleted", "Cancelled"}
PollResults == DeBridgeStatuses \cup {"HttpNotOk", "FetchRejected"}

\* The answers of the status endpoint to one monitoring run: poll n gets
\* script[n], the last entry repeating for ever.
PollScripts ==
    { <<"Created">>, <<"OrderCompleted">>, <<"Cancelled">>, <<"HttpNotOk">>,
      <<"Fulfilled", "ClaimCompleted">>, <<"FetchRejected", "SentUnlock">> }
NoScript == <<>>
ScriptAt(script, n) == IF n <= Len(script) THEN script[n] ELSE script[Len(script)]

\* DeBridgeService.monitorBridgeTransaction with the default timeout: the
\* while loop from `elapsed` ms on, poll number n next.  A Cancelled status
\* throws inside the try and is caught by the loop's own catch, which waits
\* and polls again.
\* The run gives how it settles and the number of status requests it made.
monitorDeBridgeRun_fulfilledCompletes(elapsed, script, n) ==
    IF ScriptAt(script, n) \in {"Fulfilled", "OrderCompleted", "ClaimCompleted"}
    THEN [outcome |-> "completed", polls |-> n]
    ELSE IF ScriptAt(script, n + 1) \in {"Fulfilled", "OrderCompleted", "ClaimCompleted"}
    THEN [outcome |-> "completed", polls |-> n + 1]
    ELSE [outcome |-> "timeout", polls |-> BRIDGE_TIMEOUT \div DEBRIDGE_POLL_INTERVAL]

RECURSIVE monitorDeBridgeRun(_, _, _)
monitorDeBridgeRun(elapsed, script, n) ==
    IF ~(elapsed < BRIDGE_TIMEOUT) THEN [outcome |-> "timeout", polls |-> n - 1]
    ELSE LET r == ScriptAt(script, n)
         IN  IF r \in {"OrderCompleted", "ClaimCompleted"}
             THEN [outcome |-> "completed", polls |-> n]
             ELSE monitorDeBridgeRun(elapsed + DEBRIDGE_POLL_INTERVAL, script, n + 1)

monitorDeBridge(elapsed, script, n) == monitorDeBridgeRun(elapsed, script, n).outcome

\* CCIPService.monitorBridgeTransaction with the default timeout: completion
\* is assumed once more than CCIP_DWELL ms have elapsed.
RECURSIVE monitorCCIP(_)
monitorCCIP(elapsed) ==
    IF ~(elapsed < BRIDGE_TIMEOUT) THEN "timeout"
    ELSE IF elapsed > CCIP_DWELL THEN "completed"
    ELSE monitorCCIP(elapsed + CCIP_POLL_INTERVAL)

\* --------------------------------------------------------- ArbitrageEngine

Step(type, network, description) ==
    [type |-> type, network |-> network, description |-> description, status |-> "pending"]

\* ArbitrageEngine.createExecutionPlan: the steps of the plan
createExecutionPlan_sameOrder(direction) ==
    << Step("swap", "avalanche", "Swap USDC -> USDT on Pharaoh"),
       Step("bridge", "avalanche", "Bridge USDT from Avalanche to Sonic via DeBridge"),
       Step("wait", "sonic", "Wait for USDT bridge completion on Sonic"),
       Step("swap", "sonic", "Swap USDT -> USDC on Shadow"),
       Step("bridge", "sonic", "Bridge USDC from Sonic to Avalanche via DeBridge"),
       Step("wait", "avalanche", "Wait for USDC bridge completion on Avalanche") >>

createExecutionPlan(direction) ==
    IF direction = "avalanche-to-sonic"
    THEN << Step("swap", "avalanche", "Swap USDC -> USDT on Pharaoh"),
            Step("bridge", "avalanche", "Bridge USDT from Avalanche to Sonic via DeBridge"),
            Step("wait", "sonic", "Wait for USDT bridge completion on Sonic"),
            Step("swap", "sonic", "Swap USDT -> USDC on Shadow"),
            Step("bridge", "sonic", "Bridge USDC from Sonic to Avalanche via DeBridge"),
            Step("wait", "avalanche", "Wait for USDC bridge completion on Avalanche") >>
    ELSE << Step("bridge", "avalanche", "Bridge USDC from Avalanche to Sonic via DeBridge"),
            Step("wait", "sonic", "Wait for USDC bridge completion on Sonic"),
            Step("swap", "sonic", "Swap USDC -> USDT on Shadow"),
            Step("bridge", "sonic", "Bridge USDT from Sonic to Avalanche via DeBridge"),
            Step("wait", "avalanche", "Wait for USDT bridge completion on Avalanche"),
            Step("swap", "avalanche", "Swap USDT -> USDC on Pharaoh") >>

\* step.description.includes('USDT') of executeBridgeStep
descriptionIncludesUSDT(description) ==
    description \in { "Swap USDC -> USDT on Pharaoh",
                      "Bridge USDT from Avalanche to Sonic via DeBridge",
                      "Wait for USDT bridge completion on Sonic",
                      "Swap USDT -> USDC on Shadow",
                      "Swap USDC -> USDT on Shadow",
                      "Bridge USDT from Sonic to Avalanche via DeBridge",
                      "Wait for USDT bridge completion on Avalanche",
                      "Swap USDT -> USDC on Pharaoh" }

\* ArbitrageEngine.executeBridgeStep: the arguments it passes to executeBridge
executeBridgeStepArgs(step) ==
    [ token |-> IF descriptionIncludesUSDT(step.description) THEN "USDT" ELSE "USDC",
      fromChainId |-> IF step.network = "avalanche" THEN AVALANCHE_CHAIN_ID ELSE SONIC_CHAIN_ID,
      toChainId |-> IF step.network = "avalanche" THEN SONIC_CHAIN_ID ELSE AVALANCHE_CHAIN_ID ]

\* ArbitrageEngine.executeSwapStep: the venue it swaps on
executeSwapStepDex(step) == IF step.network = "avalanche" THEN "pharaoh" ELSE "shadow"

\* ArbitrageEngine.executeSwapStep: the tokens it swaps, by the direction
\* and the step's network
executeSwapStepTokens_byNetwork(step, direction) ==
    IF step.network = "avalanche" THEN [tokenIn |-> "USDC", tokenOut |-> "USDT"]
    ELSE [tokenIn |-> "USDT", tokenOut |-> "USDC"]

executeSwapStepTokens(step, direction) ==
    IF direction = "avalanche-to-sonic"
    THEN IF step.network = "avalanche" THEN [tokenIn |-> "USDC", tokenOut |-> "USDT"]
         ELSE [tokenIn |-> "USDT", tokenOut |-> "USDC"]
    ELSE IF step.network = "avalanche" THEN [tokenIn |-> "USDT", tokenOut |-> "USDC"]
         ELSE [tokenIn |-> "USDC", tokenOut |-> "USDT"]

\* The opportunities handed to executeArbitrage.  Prices are 6-decimal fixed
\* point: o1 was seen at a 1.0% spread, o2 at exactly twice the spread the
\* two venues quote for its amount, o3 at no spread.
Opportunities ==
    { [id |-> 1, direction |-> "avalanche-to-sonic", amount |-> 10000,
       buyPrice |-> 1000000, sellPrice |-> 1010000],
      [id |-> 2, direction |-> "avalanche-to-sonic", amount |-> 10000,
       buyPrice |-> 999200, sellPrice |-> 999800],
      [id |-> 3, direction |-> "sonic-to-avalanche", amount |-> 20000,
       buyPrice |-> 1000000, sellPrice |-> 1000000] }
NoOpportunity ==
    [id |-> 0, direction |-> "none", amount |-> 0, buyPrice |-> 0, sellPrice |-> 0]

\* receipt.gasUsed of a swap transaction, as reported by the chain
GasUsedValues == {85000}
\* response.estimation.dstChainTokenOut.amount, as reported by the DeBridge API
DeBridgeOutputs(amount) == {amount - 4}

NoResult ==
    [opportunityId |-> 0, success |-> FALSE, planStatus |-> <<>>, completedSteps |-> <<>>,
     failedStep |-> 0, netProfit |-> BigZero, totalGasCost |-> BigZero, transactions |-> 0,
     error |-> "none"]

IdleCall ==
    [pc |-> "idle", opp |-> NoOpportunity, steps |-> <<>>, i |-> 0, currentAmount |-> 0,
     actualGasCost |-> BigZero, completedSteps |-> <<>>, transactions |-> 0, venueCalls |-> 0,
     quotes |-> [v \in {} |-> 0], provider |-> "none", script |-> NoScript,
     fellBack |-> FALSE, error |-> "none", result |-> NoResult,
     stepInput |-> 0, stepGas |-> 0, legs |-> <<>>, submitted |-> 0]

VARIABLES
    isExecuting,        \* ArbitrageEngine.isExecuting
    executionHistory,   \* ArbitrageEngine.executionHistory
    simulationMode,     \* BridgeManager.simulationMode
    calls,              \* the executeArbitrage calls in progress, by caller slot
    admitted,           \* number of calls that passed the admission check so far
    fnIn, fnOut,        \* argument and result of a pure function under test
    isRunning,          \* CrossChainArbitrage.isRunning
    isMonitoring,       \* PriceMonitor.isMonitoring
    testingMode,        \* CrossChainArbitrage.testingMode
    supervisorSimulationMode,   \* CrossChainArbitrage.simulationMode
    testExecutionComplete,      \* CrossChainArbitrage.testExecutionComplete
    metrics,            \* CrossChainArbitrage.metrics (the trade counters)
    loops,              \* the start() calls and their monitoringLoop, by slot
    stopCalled,         \* stop() was called since the last call of start()
    finalMetricsShown,  \* displayFinalMetricsWithDeBridge has run
    executionsStarted,  \* executions the supervisor has started so far
    priceHistory,       \* PriceMonitor.priceHistory: the stored samples by pool key
    lastPriceUpdate,    \* PriceMonitor.lastPriceUpdate: time of the last store by pool key
    monitoringSessions, \* the startMonitoring calls that set isMonitoring, each with its
                        \* initial fetch or its interval timer
    startCalls,         \* number of calls of PriceMonitor.startMonitoring so far
    fetchCycles,        \* the calls of PriceMonitor.fetchAllPrices made by timer ticks
    clock               \* Date.now()

supervisorVars ==
    <<isRunning, isMonitoring, testingMode, supervisorSimulationMode, testExecutionComplete,
      metrics, loops, stopCalled, finalMetricsShown, executionsStarted>>

priceMonitorVars ==
    <<priceHistory, lastPriceUpdate, monitoringSessions, startCalls, fetchCycles, clock>>

vars == <<isExecuting, executionHistory, simulationMode, calls, admitted, fnIn, fnOut, supervisorVars, priceMonitorVars>>

NoMetrics ==
    [totalTrades |-> 0, successfulTrades |-> 0, failedTrades |-> 0, totalProfit |-> BigZero]
NoPrices == [pharaoh |-> 0, shadow |-> 0]
IdleLoop ==
    [pc |-> "notStarted", consecutiveErrors |-> 0, queue |-> <<>>,
     prices |-> NoPrices, directions |-> <<>>]

\* The supervisor as constructed, with the constructor's two arguments.
\* the empty Map of a new PriceMonitor
NoHistory == [k \in {} |-> 0]

SupervisorConstructed(simMode, testing) ==
    /\ isRunning = FALSE
    /\ isMonitoring = FALSE
    /\ testingMode = testing
    /\ supervisorSimulationMode = simMode
    /\ testExecutionComplete = FALSE
    /\ metrics = NoMetrics
    /\ loops = [l \in Slots |-> IdleLoop]
    /\ stopCalled = FALSE
    /\ finalMetricsShown = FALSE
    /\ executionsStarted = 0
    /\ priceHistory = NoHistory
    /\ lastPriceUpdate = NoHistory
    /\ monitoringSessions = <<>>
    /\ startCalls = 0
    /\ fetchCycles = <<>>
    /\ clock = 0

InFlightPcs == {"plan", "validate", "swap", "bridge", "monitor", "wait", "planDone", "catch"}
InFlight(c) == calls[c].pc \in InFlightPcs

NoFn == [fn |-> "none"]

\* The engine as constructed; simulationMode is the constructor's argument.
Init ==
    /\ isExecuting = FALSE
    /\ executionHistory = <<>>
    /\ simulationMode \in BOOLEAN
    /\ calls = [c \in Slots |-> IdleCall]
    /\ admitted = 0
    /\ fnIn = NoFn
    /\ fnOut = NoFn
    /\ SupervisorConstructed(TRUE, FALSE)

UpdateCall(c, r) == calls' = [calls EXCEPT ![c] = r]

\* executePlan, entering loop iteration r.i: the step is marked executing and
\* its operation is called.  A bridge step's provider is decided here, when
\* BridgeManager.executeBridge is entered, from the simulation mode of that
\* moment.
beginStep(r, simMode) ==
    LET step == r.steps[r.i]
        args == executeBridgeStepArgs(step)
        r1 == [r EXCEPT !.steps[r.i].status = "executing",
                        !.stepInput = r.currentAmount, !.stepGas = 0]
    IN  IF step.type = "swap"
        THEN [r1 EXCEPT !.pc = "swap", !.venueCalls = @ + 1]
        ELSE IF step.type = "bridge"
        THEN [r1 EXCEPT !.pc = "bridge", !.venueCalls = @ + 1,
                        !.provider = bridgeRoute(args.token, args.fromChainId,
                                                 args.toChainId, simMode)]
        ELSE [r1 EXCEPT !.pc = "wait"]

PlanStatus(steps) == [j \in 1..Len(steps) |-> steps[j].status]

\* executePlan after the loop: the success result
planSucceeded_noGas(r) ==
    [r EXCEPT !.pc = "planDone",
              !.result = [opportunityId |-> r.opp.id, success |-> TRUE,
                          planStatus |-> PlanStatus(r.steps),
                          completedSteps |-> r.completedSteps, failedStep |-> 0,
                          netProfit |-> Big(0, r.currentAmount - r.opp.amount),
                          totalGasCost |-> r.actualGasCost,
                          transactions |-> r.transactions, error |-> "none"]]

planSucceeded(r) ==
    [r EXCEPT !.pc = "planDone",
              !.result = [opportunityId |-> r.opp.id, success |-> TRUE,
                          planStatus |-> PlanStatus(r.steps),
                          completedSteps |-> r.completedSteps, failedStep |-> 0,
                          netProfit |-> BigSub(Big(0, r.currentAmount - r.opp.amount),
                                                r.actualGasCost),
                          totalGasCost |-> r.actualGasCost,
                          transactions |-> r.transactions, error |-> "none"]]

completeStep_parallel(r, simMode) ==
    IF r.i = Len(r.steps)
    THEN planSucceeded([r EXCEPT !.steps[r.i].status = "completed",
                                 !.completedSteps = Append(@, r.steps[r.i])])
    ELSE beginStep([r EXCEPT !.i = r.i + 1], simMode)

completeStep_reopens(r, simMode) ==
    LET r1 == [r EXCEPT !.steps[r.i].status = "completed",
                        !.completedSteps = Append(@, r.steps[r.i])]
    IN  IF r.i = Len(r.steps)
        THEN planSucceeded([r1 EXCEPT !.steps[1].status = "pending"])
        ELSE beginStep([r1 EXCEPT !.i = r.i + 1], simMode)

\* executePlan, the end of a loop iteration whose operation succeeded: the
\* step is completed and copied to completedSteps, then the next iteration
\* starts or the plan ends.
completeStep(r, simMode) ==
    LET r1 == [r EXCEPT !.steps[r.i].status = "completed"]
        r2 == [r1 EXCEPT !.completedSteps = Append(@, r1.steps[r.i]),
                         !.legs = Append(@, [type |-> r.steps[r.i].type,
                                             amountIn |-> r.stepInput,
                                             amountOut |-> r.currentAmount,
                                             gasUsed |-> r.stepGas,
                                             provider |-> r.provider]),
                         !.provider = "none", !.script = NoScript, !.fellBack = FALSE]
    IN  IF r.i = Len(r.steps) THEN planSucceeded(r2)
        ELSE beginStep([r2 EXCEPT !.i = r.i + 1], simMode)

\* executePlan, catch (stepError): the step is marked failed and the failure
\* result is returned at once.
failStep_continues(r, stepError) ==
    LET r1 == [r EXCEPT !.steps[r.i].status = "failed", !.error = stepError]
    IN  IF r.i = Len(r.steps)
        THEN [r1 EXCEPT !.pc = "planDone",
                        !.result = [opportunityId |-> r.opp.id, success |-> FALSE,
                                    planStatus |-> PlanStatus(r1.steps),
                                    completedSteps |-> r.completedSteps,
                                    failedStep |-> r.i, netProfit |-> BigZero,
                                    totalGasCost |-> r.actualGasCost,
                                    transactions |-> r.transactions,
                                    error |-> stepError]]
        ELSE beginStep([r1 EXCEPT !.i = r.i + 1, !.provider = "none",
                                  !.script = NoScript, !.fellBack = FALSE], FALSE)

failStep(r, stepError) ==
    LET r1 == [r EXCEPT !.steps[r.i].status = "failed", !.error = stepError,
                        !.provider = "none", !.script = NoScript, !.fellBack = FALSE]
    IN  [r1 EXCEPT !.pc = "planDone",
                   !.result = [opportunityId |-> r.opp.id, success |-> FALSE,
                               planStatus |-> PlanStatus(r1.steps),
                               completedSteps |-> r.completedSteps,
                               failedStep |-> r.i, netProfit |-> BigZero,
                               totalGasCost |-> r.actualGasCost,
                               transactions |-> r.transactions, error |-> stepError]]

\* executeArbitrage, the admission check finding the flag set: the call
\* throws EXECUTION_IN_PROGRESS.
rejectCall_clearsFlag(c, opp) ==
    /\ UpdateCall(c, [IdleCall EXCEPT !.pc = "rejected", !.opp = opp,
                                      !.error = "EXECUTION_IN_PROGRESS"])
    /\ isExecuting' = FALSE
    /\ UNCHANGED <<executionHistory, admitted>>

rejectCall(c, opp) ==
    /\ UpdateCall(c, [IdleCall EXCEPT !.pc = "rejected", !.opp = opp,
                                      !.error = "EXECUTION_IN_PROGRESS"])
    /\ UNCHANGED <<isExecuting, executionHistory, admitted>>

\* executeArbitrage up to `await this.createExecutionPlan(opportunity)`.
\* The new call takes the first slot that holds no call in progress.
executeArbitrageCall(c, opp) ==
    IF isExecuting
    THEN rejectCall(c, opp)
    ELSE /\ isExecuting' = TRUE
         /\ admitted' = admitted + 1
         /\ UpdateCall(c, [IdleCall EXCEPT !.pc = "plan", !.opp = opp])
         /\ UNCHANGED executionHistory

ExecuteArbitrage(c, opp) ==
    /\ ~InFlight(c)
    /\ \A d \in Slots : d < c => InFlight(d)
    /\ admitted < MaxAdmitted
    /\ executeArbitrageCall(c, opp)
    /\ UNCHANGED <<simulationMode, fnIn, fnOut, supervisorVars, priceMonitorVars>>

\* createExecutionPlan settles; executeArbitrage goes on to
\* `await this.validateOpportunity(opportunity)`
PlanCreated(c) ==
    /\ calls[c].pc = "plan"
    /\ UpdateCall(c, [calls[c] EXCEPT !.pc = "validate",
                                      !.steps = createExecutionPlan(calls[c].opp.direction)])
    /\ UNCHANGED <<isExecuting, executionHistory, simulationMode, admitted, fnIn, fnOut, supervisorVars, priceMonitorVars>>

\* validateOpportunity settles: it throws into executeArbitrage's catch, or
\* executePlan starts and runs to the await of its first step.
ValidationSettled(c, failed) ==
    /\ calls[c].pc = "validate"
    /\ LET r == calls[c]
           currentQuotes == getAllQuotes(r.opp.amount, failed)
           err == validateOpportunity(currentQuotes, r.opp.buyPrice, r.opp.sellPrice)
           r1 == [r EXCEPT !.quotes = currentQuotes.quotes]
       IN  IF err # "none"
           THEN UpdateCall(c, [r1 EXCEPT !.pc = "catch", !.error = err])
           ELSE UpdateCall(c, beginStep([r1 EXCEPT !.i = 1, !.currentAmount = r.opp.amount],
                                        simulationMode))
    /\ UNCHANGED <<isExecuting, executionHistory, simulationMode, admitted, fnIn, fnOut, supervisorVars, priceMonitorVars>>

\* executeSwapStep settles with a swap result (amountOut is the venue's fresh
\* quote, gas the receipt's gasUsed).  The venue has sent the swap to its
\* chain with writeContract and waited for the receipt; DexManager and the
\* venues have no simulation mode.
SwapSucceeded(c, gasUsed) ==
    /\ calls[c].pc = "swap"
    /\ LET r == calls[c]
           dex == executeSwapStepDex(r.steps[r.i])
       IN  UpdateCall(c, completeStep([r EXCEPT !.transactions = @ + 1,
                                                !.submitted = @ + 1,
                                                !.stepGas = gasUsed,
                                                !.actualGasCost =
                                                    BigAdd(@, BigTimes(gasUsed, Big(GAS_PRICE_GWEI, 0))),
                                                !.currentAmount = VenueQuote(dex, @)],
                                      simulationMode))
    /\ UNCHANGED <<isExecuting, executionHistory, simulationMode, admitted, fnIn, fnOut, supervisorVars, priceMonitorVars>>

\* executeSwapStep settles with a SwapError
SwapFailed(c) ==
    /\ calls[c].pc = "swap"
    /\ UpdateCall(c, failStep(calls[c], "SWAP_FAILED"))
    /\ UNCHANGED <<isExecuting, executionHistory, simulationMode, admitted, fnIn, fnOut, supervisorVars, priceMonitorVars>>

\* estimatedOutput of a bridge executed by a real provider: DeBridge passes on
\* the API's estimate, CCIP reports the amount itself (1:1).
RealBridgeOutputs(r) ==
    IF r.provider = "debridge" THEN DeBridgeOutputs(r.currentAmount) ELSE {r.currentAmount}

\* the status answers the monitoring of that bridge will get (CCIP asks none)
RealBridgeScripts(r) == IF r.provider = "debridge" THEN PollScripts ELSE {NoScript}

\* executeBridgeStep settles, the bridge executed by DeBridge or CCIP; the
\* monitoring promise of that provider is awaited next.
BridgeExecuted(c, estimatedOutput, script) ==
    /\ calls[c].pc = "bridge"
    /\ calls[c].provider \in {"debridge", "ccip"}
    /\ estimatedOutput \in RealBridgeOutputs(calls[c])
    /\ script \in RealBridgeScripts(calls[c])
    /\ UpdateCall(c, [calls[c] EXCEPT !.pc = "monitor", !.transactions = @ + 1,
                                      !.submitted = @ + 1,
                                      !.currentAmount = estimatedOutput,
                                      !.script = script])
    /\ UNCHANGED <<isExecuting, executionHistory, simulationMode, admitted, fnIn, fnOut, supervisorVars, priceMonitorVars>>

\* executeBridgeStep settles, DeBridge or CCIP having thrown: executeBridge's
\* catch executed the bridge through the simulation provider.
BridgeFellBack_propagates(c) ==
    /\ calls[c].pc = "bridge"
    /\ calls[c].provider \in {"debridge", "ccip"}
    /\ UpdateCall(c, failStep(calls[c], "BRIDGE_FAILED"))
    /\ UNCHANGED <<isExecuting, executionHistory, simulationMode, admitted, fnIn, fnOut, supervisorVars, priceMonitorVars>>

BridgeFellBack(c) ==
    /\ calls[c].pc = "bridge"
    /\ calls[c].provider \in {"debridge", "ccip"}
    /\ UpdateCall(c, [calls[c] EXCEPT !.pc = "monitor", !.transactions = @ + 1,
                                      !.currentAmount = simulationOutput(@),
                                      !.provider = "simulation", !.fellBack = TRUE])
    /\ UNCHANGED <<isExecuting, executionHistory, simulationMode, admitted, fnIn, fnOut, supervisorVars, priceMonitorVars>>

\* executeBridgeStep settles, the bridge executed by the simulation provider
BridgeSimulated(c) ==
    /\ calls[c].pc = "bridge"
    /\ calls[c].provider = "simulation"
    /\ UpdateCall(c, [calls[c] EXCEPT !.pc = "monitor", !.transactions = @ + 1,
                                      !.currentAmount = simulationOutput(@)])
    /\ UNCHANGED <<isExecuting, executionHistory, simulationMode, admitted, fnIn, fnOut, supervisorVars, priceMonitorVars>>

\* The outcome of the monitoring promise of the bridge leg in progress
monitoringOutcome_masked(r) == "completed"

monitoringOutcome(r) ==
    IF r.provider = "debridge" THEN monitorDeBridge(0, r.script, 1)
    ELSE IF r.provider = "ccip" THEN monitorCCIP(0)
    ELSE "completed"

\* `await bridgeResult.monitoringPromise` settles
MonitoringSettled(c) ==
    /\ calls[c].pc = "monitor"
    /\ IF monitoringOutcome(calls[c]) = "completed"
       THEN UpdateCall(c, completeStep(calls[c], simulationMode))
       ELSE UpdateCall(c, failStep(calls[c], "BRIDGE_MONITORING_TIMEOUT"))
    /\ UNCHANGED <<isExecuting, executionHistory, simulationMode, admitted, fnIn, fnOut, supervisorVars, priceMonitorVars>>

\* the one-second timer of a wait step fires
WaitElapsed(c) ==
    /\ calls[c].pc = "wait"
    /\ UpdateCall(c, completeStep(calls[c], simulationMode))
    /\ UNCHANGED <<isExecuting, executionHistory, simulationMode, admitted, fnIn, fnOut, supervisorVars, priceMonitorVars>>

\* executePlan has settled: executeArbitrage stores the result, returns it,
\* and its finally block clears the flag.
ExecuteArbitrageReturns_keepsFlag(c) ==
    /\ calls[c].pc = "planDone"
    /\ executionHistory' = Append(executionHistory, calls[c].result)
    /\ isExecuting' = (isExecuting /\ ~calls[c].result.success)
    /\ UpdateCall(c, [calls[c] EXCEPT !.pc = "returned"])
    /\ UNCHANGED <<simulationMode, admitted, fnIn, fnOut, supervisorVars, priceMonitorVars>>

ExecuteArbitrageReturns(c) ==
    /\ calls[c].pc = "planDone"
    /\ executionHistory' = Append(executionHistory, calls[c].result)
    /\ isExecuting' = FALSE
    /\ UpdateCall(c, [calls[c] EXCEPT !.pc = "returned"])
    /\ UNCHANGED <<simulationMode, admitted, fnIn, fnOut, supervisorVars, priceMonitorVars>>

\* executeArbitrage's catch block after its own createExecutionPlan settled:
\* a failure result over a fresh plan is stored and returned, and the
\* finally block clears the flag.
catchResult(r) ==
    [opportunityId |-> r.opp.id, success |-> FALSE,
     planStatus |-> PlanStatus(createExecutionPlan(r.opp.direction)),
     completedSteps |-> <<>>, failedStep |-> 0, netProfit |-> BigZero, totalGasCost |-> BigZero,
     transactions |-> 0, error |-> r.error]

ExecuteArbitrageCatches_rethrows(c) ==
    /\ calls[c].pc = "catch"
    /\ executionHistory' = executionHistory
    /\ isExecuting' = FALSE
    /\ UpdateCall(c, [calls[c] EXCEPT !.pc = "returned", !.result = catchResult(calls[c])])
    /\ UNCHANGED <<simulationMode, admitted, fnIn, fnOut, supervisorVars, priceMonitorVars>>

ExecuteArbitrageCatches(c) ==
    /\ calls[c].pc = "catch"
    /\ executionHistory' = Append(executionHistory, catchResult(calls[c]))
    /\ isExecuting' = FALSE
    /\ UpdateCall(c, [calls[c] EXCEPT !.pc = "returned", !.result = catchResult(calls[c])])
    /\ UNCHANGED <<simulationMode, admitted, fnIn, fnOut, supervisorVars, priceMonitorVars>>

\* ArbitrageEngine.emergencyStop
EmergencyStop ==
    /\ isExecuting' = FALSE
    /\ UNCHANGED <<executionHistory, simulationMode, calls, admitted, fnIn, fnOut, supervisorVars, priceMonitorVars>>

\* ArbitrageEngine.setSimulationMode
SetSimulationMode(enabled) ==
    /\ simulationMode' = enabled
    /\ UNCHANGED <<isExecuting, executionHistory, calls, admitted, fnIn, fnOut, supervisorVars, priceMonitorVars>>

Next ==
    \/ \E c \in Slots, opp \in Opportunities : ExecuteArbitrage(c, opp)
    \/ \E c \in Slots : PlanCreated(c)
    \/ \E c \in Slots, failed \in SUBSET Venues : ValidationSettled(c, failed)
    \/ \E c \in Slots, gasUsed \in GasUsedValues : SwapSucceeded(c, gasUsed)
    \/ \E c \in Slots : SwapFailed(c)
    \/ \E c \in Slots : \E estimatedOutput \in RealBridgeOutputs(calls[c]),
                            script \in RealBridgeScripts(calls[c]) :
          BridgeExecuted(c, estimatedOutput, script)
    \/ \E c \in Slots : BridgeFellBack(c)
    \/ \E c \in Slots : BridgeSimulated(c)
    \/ \E c \in Slots : MonitoringSettled(c)
    \/ \E c \in Slots : WaitElapsed(c)
    \/ \E c \in Slots : ExecuteArbitrageReturns(c)
    \/ \E c \in Slots : ExecuteArbitrageCatches(c)
    \/ EmergencyStop
    \/ \E enabled \in BOOLEAN : SetSimulationMode(enabled)

Spec == Init /\ [][Next]_vars

\* ------------------------------------------- CrossChainArbitrage (supervisor)

\* price0 of the Pharaoh and the Shadow pool as the price monitor reports
\* them (six decimals): equal prices, and the two pools half a per mille and
\* one per mille either side of parity
PoolPrices ==
    { [pharaoh |-> 1000000, shadow |-> 1000000],
      [pharaoh |-> 1000500, shadow |-> 999500],
      [pharaoh |-> 999000, shadow |-> 1001000] }

Directions == <<"avalanche-to-sonic", "sonic-to-avalanche">>

\* `Math.abs(priceDifference) < 0.0001` of the opportunity check
DifferenceTooSmall(prices) ==
    LET d == calculatePriceDifference(prices.pharaoh, prices.shadow)
    IN  ~IsNaN(d) /\ ~IsInfinite(d) /\ d.num * 10000 < d.den

\* analyzeOpportunityWithDeBridge up to its first await: the pools to buy
\* from and sell to, or no opportunity when the direction is not the
\* cheaper-to-dearer one (testing mode forces the direction)
analysisBegins(direction, prices, testing) ==
    IF testing THEN TRUE
    ELSE IF direction = "avalanche-to-sonic" THEN prices.pharaoh < prices.shadow
    ELSE prices.shadow < prices.pharaoh

buyPrice0(direction, prices) ==
    IF direction = "avalanche-to-sonic" THEN prices.pharaoh ELSE prices.shadow
sellPrice0(direction, prices) ==
    IF direction = "avalanche-to-sonic" THEN prices.shadow ELSE prices.pharaoh

\* BridgeManager.estimateArbitrageBridgeCosts: totalCost, two legs of 10^15
estimateArbitrageBridgeCosts(direction) ==
    BigAdd(Big(BRIDGE_LEG_COST_GWEI, 0), Big(BRIDGE_LEG_COST_GWEI, 0))

\* calculateProfitPercentage(netProfit, investment) < 0.1
ProfitPercentageBelowTenth(netProfit, investment) ==
    IF investment = 0 THEN TRUE
    ELSE /\ netProfit.g = 0
         /\ netProfit.u < investment
         /\ netProfit.u * 1000 < investment

\* ArbitrageCalculator.validateOpportunity
calculatorValidateOpportunity(netProfit, investment) ==
    /\ BigLess(BigZero, netProfit)
    /\ ~ProfitPercentageBelowTenth(netProfit, investment)
    /\ investment > 0

\* the mark `profitable` of an analysed opportunity; the configured threshold
\* is not read
isProfitable(netProfit, testing, profitThreshold) ==
    testing \/ BigLess(Big(0, PROFITABLE_ABOVE), netProfit)

\* analyzeOpportunityWithDeBridge after its await: the opportunity with its
\* profit figures, or none.  profitThreshold is ARBITRAGE_CONFIG's
\* profitThresholdUSD in token units.
analyzeOpportunityWithDeBridge(direction, prices, testing, profitThreshold) ==
    LET buy == buyPrice0(direction, prices)
        sell == sellPrice0(direction, prices)
        gross0 == calculateArbitrageProfit(buy, sell, TRADE_AMOUNT)
        grossProfit == IF testing /\ gross0 <= 0 THEN TESTING_GROSS_PROFIT ELSE gross0
        netProfit == calculateNetProfit(Big(0, grossProfit), Big(ESTIMATED_GAS_COST_GWEI, 0),
                                        estimateArbitrageBridgeCosts(direction), BigZero)
        opportunity ==
            [opp |-> [id |-> IF direction = "avalanche-to-sonic" THEN 4 ELSE 5,
                      direction |-> direction, amount |-> TRADE_AMOUNT,
                      buyPrice |-> buy, sellPrice |-> sell],
             grossProfit |-> grossProfit,
             netProfit |-> netProfit,
             profitable |-> isProfitable(netProfit, testing, profitThreshold)]
    IN  IF testing \/ calculatorValidateOpportunity(netProfit, TRADE_AMOUNT)
        THEN <<opportunity>>
        ELSE <<>>

\* the valid opportunities of one check, avalanche-to-sonic first: those of
\* the directions whose analysis went past its first part
RECURSIVE validOpportunities(_, _, _, _)
validOpportunities(directions, prices, testing, profitThreshold) ==
    IF directions = <<>> THEN <<>>
    ELSE analyzeOpportunityWithDeBridge(Head(directions), prices, testing, profitThreshold)
           \o validOpportunities(Tail(directions), prices, testing, profitThreshold)

\* the for loop of checkArbitrageOpportunitiesWithDeBridge passing over the
\* opportunities it does not execute (not profitable, outside testing mode)
RECURSIVE dropSkipped(_, _)
dropSkipped(queue, testing) ==
    IF queue = <<>> THEN <<>>
    ELSE IF testing \/ Head(queue).profitable THEN queue
    ELSE dropSkipped(Tail(queue), testing)

\* checkArbitrageOpportunitiesWithDeBridge from the prices to its for loop:
\* the opportunities left from the first one it executes on, none when it
\* starts no execution
executionQueue(prices, testing, profitThreshold) ==
    IF ~testing /\ DifferenceTooSmall(prices) THEN <<>>
    ELSE dropSkipped(
             validOpportunities(
                 SelectSeq(Directions, LAMBDA d : analysisBegins(d, prices, testing)),
                 prices, testing, profitThreshold),
             testing)

\* simulateExecutionWithDeBridge after its sleep: the counters
recordSimulated_asFailed(m, netProfit) ==
    [m EXCEPT !.totalTrades = @ + 1, !.failedTrades = @ + 1]

recordSimulated(m, netProfit) ==
    [m EXCEPT !.totalTrades = @ + 1, !.successfulTrades = @ + 1,
              !.totalProfit = BigAdd(@, netProfit)]

\* executeRealArbitrageWithDeBridge after executeArbitrage returned a result
recordResult(m, result) ==
    IF result.success
    THEN [m EXCEPT !.totalTrades = @ + 1, !.successfulTrades = @ + 1,
                   !.totalProfit = BigAdd(@, result.netProfit)]
    ELSE [m EXCEPT !.totalTrades = @ + 1, !.failedTrades = @ + 1]

\* executeRealArbitrageWithDeBridge, catch: executeArbitrage threw
recordThrow_totalOnly(m) == [m EXCEPT !.totalTrades = @ + 1]

recordThrow(m) == [m EXCEPT !.totalTrades = @ + 1, !.failedTrades = @ + 1]

\* monitoringLoop after checkArbitrageOpportunitiesWithDeBridge returned:
\* the error count is reset and the loop sleeps for the monitoring interval.
finishIteration_keepsCount(r) ==
    [r EXCEPT !.pc = "sleep", !.queue = <<>>, !.prices = NoPrices, !.directions = <<>>]

finishIteration(r) ==
    [r EXCEPT !.pc = "sleep", !.consecutiveErrors = 0, !.queue = <<>>,
              !.prices = NoPrices, !.directions = <<>>]

\* monitoringLoop, catch: the error is counted; at maxConsecutiveErrors the
\* loop is left, below it the loop sleeps five seconds and goes on.
failIteration(r) ==
    LET n == r.consecutiveErrors + 1
    IN  [r EXCEPT !.consecutiveErrors = n, !.queue = <<>>,
                  !.pc = IF n >= maxConsecutiveErrors THEN "exited" ELSE "errorSleep"]

\* The for loop over the valid opportunities from `queue` on, the counters
\* and the test mark being m and tec: the next executed opportunity is
\* started (the simulation sleeps three seconds, the real one calls
\* executeArbitrage), or the check returns and the iteration ends.
RunQueue(l, queue, m, tec) ==
    LET q == dropSkipped(queue, testingMode)
    IN  /\ metrics' = m
        /\ testExecutionComplete' = tec
        /\ IF q = <<>>
           THEN /\ loops' = [loops EXCEPT ![l] = finishIteration(@)]
                /\ UNCHANGED <<isExecuting, executionHistory, calls, admitted,
                               executionsStarted>>
           ELSE /\ executionsStarted' = executionsStarted + 1
                /\ IF supervisorSimulationMode
                   THEN /\ loops' = [loops EXCEPT ![l].pc = "simSleep", ![l].queue = q,
                                                   ![l].prices = NoPrices,
                                                   ![l].directions = <<>>]
                        /\ UNCHANGED <<isExecuting, executionHistory, calls, admitted>>
                   ELSE /\ loops' = [loops EXCEPT ![l].pc = "awaitExecution",
                                                   ![l].queue = q,
                                                   ![l].prices = NoPrices,
                                                   ![l].directions = <<>>]
                        /\ executeArbitrageCall(l, Head(q).opp)

\* after an execution: testing mode marks the test complete and leaves the
\* for loop, otherwise the loop goes on with the next opportunity
AfterExecution(l, m) ==
    IF testingMode
    THEN RunQueue(l, <<>>, m, TRUE)
    ELSE RunQueue(l, Tail(loops[l].queue), m, testExecutionComplete)

\* start() is called; it runs to its first await.  Nothing in start()
\* refuses a second call while a first is running; the calls take the loop
\* records in order.
Start(l) ==
    /\ loops[l].pc = "notStarted"
    /\ \A k \in Slots : k < l => loops[k].pc # "notStarted"
    /\ loops' = [loops EXCEPT ![l].pc = "starting"]
    /\ stopCalled' = FALSE
    /\ UNCHANGED <<isExecuting, executionHistory, simulationMode, calls, admitted, fnIn, fnOut, priceMonitorVars,
                   isRunning, isMonitoring, testingMode, supervisorSimulationMode,
                   testExecutionComplete, metrics, finalMetricsShown, executionsStarted>>

\* start() calls priceMonitor.startMonitoring, which marks monitoring active
\* and awaits its first price fetch
MonitoringStarted(l) ==
    /\ loops[l].pc = "starting"
    /\ loops' = [loops EXCEPT ![l].pc = "startingPrices"]
    /\ isMonitoring' = TRUE
    /\ UNCHANGED <<isExecuting, executionHistory, simulationMode, calls, admitted, fnIn, fnOut, priceMonitorVars,
                   isRunning, testingMode, supervisorSimulationMode, testExecutionComplete,
                   metrics, stopCalled, finalMetricsShown, executionsStarted>>

\* startMonitoring threw and fallback pricing is off: start() rethrows
StartFailed(l) ==
    /\ loops[l].pc = "startingPrices"
    /\ loops' = [loops EXCEPT ![l].pc = "startFailed"]
    /\ UNCHANGED <<isExecuting, executionHistory, simulationMode, calls, admitted, fnIn, fnOut, priceMonitorVars,
                   isRunning, isMonitoring, testingMode, supervisorSimulationMode,
                   testExecutionComplete, metrics, stopCalled, finalMetricsShown,
                   executionsStarted>>

\* An iteration of monitoringLoop begins: on entry from start() (which sets
\* isRunning) or when a sleep ends with isRunning still set.  The check
\* returns at once when the engine is executing or the test is done;
\* otherwise `outcome` says whether it returns for want of prices ("skip"),
\* throws, or has the prices of both pools.  With prices it returns when
\* their difference is too small (outside testing mode) and else starts the
\* analysis of both directions and awaits them.
BeginIteration(l, outcome, prices) ==
    /\ \/ loops[l].pc = "startingPrices"
       \/ loops[l].pc \in {"sleep", "errorSleep"} /\ isRunning
    /\ isRunning' = TRUE
    /\ IF isExecuting \/ (testingMode /\ testExecutionComplete)
       THEN /\ outcome = "skip"
            /\ loops' = [loops EXCEPT ![l] = finishIteration(@)]
       ELSE IF outcome = "skip" THEN loops' = [loops EXCEPT ![l] = finishIteration(@)]
       ELSE IF outcome = "throw" THEN loops' = [loops EXCEPT ![l] = failIteration(@)]
       ELSE IF ~testingMode /\ DifferenceTooSmall(prices)
       THEN loops' = [loops EXCEPT ![l] = finishIteration(@)]
       ELSE loops' = [loops EXCEPT
                ![l].pc = "analyze",
                ![l].prices = prices,
                ![l].directions =
                    SelectSeq(Directions, LAMBDA d : analysisBegins(d, prices, testingMode))]
    /\ UNCHANGED <<isExecuting, executionHistory, simulationMode, calls, admitted, fnIn, fnOut, priceMonitorVars,
                   isMonitoring, testingMode, supervisorSimulationMode,
                   testExecutionComplete, metrics, stopCalled, finalMetricsShown,
                   executionsStarted>>

\* a sleep of monitoringLoop ends with isRunning cleared: the loop is left
\* and start() returns
LoopExits(l) ==
    /\ loops[l].pc \in {"sleep", "errorSleep"}
    /\ ~isRunning
    /\ loops' = [loops EXCEPT ![l].pc = "exited"]
    /\ UNCHANGED <<isExecuting, executionHistory, simulationMode, calls, admitted, fnIn, fnOut, priceMonitorVars,
                   isRunning, isMonitoring, testingMode, supervisorSimulationMode,
                   testExecutionComplete, metrics, stopCalled, finalMetricsShown,
                   executionsStarted>>

\* Promise.allSettled of the two analyses settles; the for loop starts
AnalysisSettled(l) ==
    /\ loops[l].pc = "analyze"
    /\ RunQueue(l, validOpportunities(loops[l].directions, loops[l].prices, testingMode,
                                      PROFIT_THRESHOLD_USD_DEFAULT),
                metrics, testExecutionComplete)
    /\ UNCHANGED <<simulationMode, fnIn, fnOut, priceMonitorVars, isRunning, isMonitoring, testingMode,
                   supervisorSimulationMode, stopCalled, finalMetricsShown>>

\* simulateExecutionWithDeBridge: its three-second sleep ends
SimulationSlept(l) ==
    /\ loops[l].pc = "simSleep"
    /\ AfterExecution(l, recordSimulated(metrics, Head(loops[l].queue).netProfit))
    /\ UNCHANGED <<simulationMode, fnIn, fnOut, priceMonitorVars, isRunning, isMonitoring, testingMode,
                   supervisorSimulationMode, stopCalled, finalMetricsShown>>

\* executeRealArbitrageWithDeBridge: executeArbitrage has settled, with a
\* result or with the exception of a rejected call
RealExecutionSettled(l) ==
    /\ loops[l].pc = "awaitExecution"
    /\ calls[l].pc \in {"returned", "rejected"}
    /\ AfterExecution(l, IF calls[l].pc = "returned"
                         THEN recordResult(metrics, calls[l].result)
                         ELSE recordThrow(metrics))
    /\ UNCHANGED <<simulationMode, fnIn, fnOut, priceMonitorVars, isRunning, isMonitoring, testingMode,
                   supervisorSimulationMode, stopCalled, finalMetricsShown>>

\* CrossChainArbitrage.stop
Stop ==
    /\ isRunning' = FALSE
    /\ isMonitoring' = FALSE
    /\ finalMetricsShown' = TRUE
    /\ stopCalled' = TRUE
    /\ UNCHANGED <<isExecuting, executionHistory, simulationMode, calls, admitted, fnIn, fnOut, priceMonitorVars,
                   testingMode, supervisorSimulationMode, testExecutionComplete, metrics,
                   loops, executionsStarted>>

\* CrossChainArbitrage.enableLiveTrading / enableSimulationMode: refused
\* while the system is running
EnableMode(simMode) ==
    /\ ~isRunning
    /\ supervisorSimulationMode' = simMode
    /\ simulationMode' = simMode
    /\ UNCHANGED <<isExecuting, executionHistory, calls, admitted, fnIn, fnOut, priceMonitorVars,
                   isRunning, isMonitoring, testingMode, testExecutionComplete, metrics,
                   loops, stopCalled, finalMetricsShown, executionsStarted>>

\* CrossChainArbitrage.enableTestingMode
EnableTestingMode ==
    /\ testingMode' = TRUE
    /\ UNCHANGED <<isExecuting, executionHistory, simulationMode, calls, admitted, fnIn, fnOut, priceMonitorVars,
                   isRunning, isMonitoring, supervisorSimulationMode, testExecutionComplete,
                   metrics, loops, stopCalled, finalMetricsShown, executionsStarted>>

\* The supervisor with its engine, as main() constructs them from the
\* environment: both get the same simulation mode.
InitSupervisor ==
    /\ isExecuting = FALSE
    /\ executionHistory = <<>>
    /\ simulationMode \in BOOLEAN
    /\ calls = [c \in Slots |-> IdleCall]
    /\ admitted = 0
    /\ fnIn = NoFn
    /\ fnOut = NoFn
    /\ \E testing \in BOOLEAN : SupervisorConstructed(simulationMode, testing)

\* start() is called once
NextSupervisor ==
    \/ Start(1)
    \/ \E l \in Slots : MonitoringStarted(l)
    \/ \E l \in Slots : StartFailed(l)
    \/ \E l \in Slots, outcome \in {"skip", "analyze", "throw"}, prices \in PoolPrices :
          BeginIteration(l, outcome, prices)
    \/ \E l \in Slots : LoopExits(l)
    \/ \E l \in Slots : AnalysisSettled(l)
    \/ \E l \in Slots : SimulationSlept(l)
    \/ \E l \in Slots : RealExecutionSettled(l)
    \/ Stop
    \/ \E simMode \in BOOLEAN : EnableMode(simMode)
    \/ EnableTestingMode
    \/ \E c \in Slots : PlanCreated(c)
    \/ \E c \in Slots, failed \in SUBSET Venues : ValidationSettled(c, failed)
    \/ \E c \in Slots, gasUsed \in GasUsedValues : SwapSucceeded(c, gasUsed)
    \/ \E c \in Slots : SwapFailed(c)
    \/ \E c \in Slots : \E estimatedOutput \in RealBridgeOutputs(calls[c]),
                            script \in RealBridgeScripts(calls[c]) :
          BridgeExecuted(c, estimatedOutput, script)
    \/ \E c \in Slots : BridgeFellBack(c)
    \/ \E c \in Slots : BridgeSimulated(c)
    \/ \E c \in Slots : MonitoringSettled(c)
    \/ \E c \in Slots : WaitElapsed(c)
    \/ \E c \in Slots : ExecuteArbitrageReturns(c)
    \/ \E c \in Slots : ExecuteArbitrageCatches(c)

SpecSupervisor == InitSupervisor /\ [][NextSupervisor]_vars

\* start() is called again while the first call is running, so that two
\* monitoring loops share the supervisor's fields and its engine; the mode is
\* the one the supervisor was constructed with and no iteration throws.
\* The engine is then called only with its simulation mode off.
NextConcurrentStarts ==
    \/ \E l \in Slots : Start(l)
    \/ \E l \in Slots : MonitoringStarted(l)
    \/ \E l \in Slots : StartFailed(l)
    \/ \E l \in Slots, outcome \in {"skip", "analyze"}, prices \in PoolPrices :
          BeginIteration(l, outcome, prices)
    \/ \E l \in Slots : LoopExits(l)
    \/ \E l \in Slots : AnalysisSettled(l)
    \/ \E l \in Slots : SimulationSlept(l)
    \/ \E l \in Slots : RealExecutionSettled(l)
    \/ Stop
    \/ \E c \in Slots : PlanCreated(c)
    \/ \E c \in Slots, failed \in SUBSET Venues : ValidationSettled(c, failed)
    \/ \E c \in Slots, gasUsed \in GasUsedValues : SwapSucceeded(c, gasUsed)
    \/ \E c \in Slots : SwapFailed(c)
    \/ \E c \in Slots : \E estimatedOutput \in RealBridgeOutputs(calls[c]),
                            script \in RealBridgeScripts(calls[c]) :
          BridgeExecuted(c, estimatedOutput, script)
    \/ \E c \in Slots : BridgeFellBack(c)
    \/ \E c \in Slots : MonitoringSettled(c)
    \/ \E c \in Slots : WaitElapsed(c)
    \/ \E c \in Slots : ExecuteArbitrageReturns(c)
    \/ \E c \in Slots : ExecuteArbitrageCatches(c)

SpecConcurrentStarts == InitSupervisor /\ [][NextConcurrentStarts]_vars

\* ------------------------------------------- pure functions, applied alone

\* quote amounts a venue adapter (or a test double of it) hands to
\* validateOpportunity, and the venue answers getAllQuotes may collect
QuoteOutputs == {1000, 1002, 1005, 1010}
QuoteMaps ==
    [Venues -> QuoteOutputs] \cup [{"pharaoh"} -> {1000}] \cup [{"shadow"} -> {1000}]
PricePairs == { <<1000000, 1010000>>, <<1010000, 1000000>>, <<1000000, 1000000>> }
QuoteAmounts == {2, 2000, 10000, 20000}

FnInput(fn, quotes, prices, amountIn, failed) ==
    [fn |-> fn, quotes |-> quotes, buyPrice |-> prices[1], sellPrice |-> prices[2],
     amountIn |-> amountIn, failed |-> failed]

\* the two stablecoins, and chain ids a caller may pass: Avalanche, Sonic and
\* one chain (Ethereum, id 1) no provider is configured for
Tokens == {"USDC", "USDT"}
ChainIds == {AVALANCHE_CHAIN_ID, SONIC_CHAIN_ID, 1}

\* amounts handed to the simulation provider, around the multiples of 1000,
\* and values of 60000 + Math.random() * 120000 (ms, below its supremum)
SimulationAmounts == {0, 1, 999, 1000, 1001, 1999, 2000, 10000, 1000000, 1000999}
BridgeTimes == {60000, 120000, 179999}

\* what getAllQuotes may hand to getBestQuote: any of the above, or no quote
BestQuoteMaps == QuoteMaps \cup {[v \in {} |-> 0]}

\* fixed-point prices (six decimals) around parity, and the smallest ones
PriceValues == {0, 1, 999500, 1000000, 1000500, 1010000}
\* trade amounts; the products amount * spread stay below 2^31
ProfitAmounts == {0, 1, 999, 1000, 1500, 1000000, 2000000}
ProfitInputs ==
    { [fn |-> "calculateArbitrageProfit", buyPrice |-> b, sellPrice |-> s, amount |-> a] :
          b \in PriceValues, s \in PriceValues, a \in ProfitAmounts }
GrossProfits == {0, 100, 150, 1000}
GasCosts == {0, 50, 100, 500}
BridgeCosts == {0, 50, 400}
SlippageCosts == {0, 50}

\* pool prices given to one opportunity check: those of PoolPrices and a
\* pair two per cent either side of parity
AnalysisPrices == PoolPrices \cup { [pharaoh |-> 980000, shadow |-> 1020000] }

\* values of PROFIT_THRESHOLD_USD in token units: 0.01 and the default 0.50
ProfitThresholds == { 10000, PROFIT_THRESHOLD_USD_DEFAULT }

\* retryAsync: the delay slept after the failed attempt `attempt` (from 0)
retryDelay_fromOne(baseDelay, attempt, exponentialBackoff) ==
    IF exponentialBackoff THEN baseDelay * Pow2(attempt + 1) ELSE baseDelay

retryDelay(baseDelay, attempt, exponentialBackoff) ==
    IF exponentialBackoff THEN baseDelay * Pow2(attempt) ELSE baseDelay

\* retryAsync from the loop iteration `attempt` on.  outcomes[k] tells whether
\* the k-th call of the operation resolves; a result or an error is named by
\* the number of the call that gave it (0: none, lastError still undefined).
RECURSIVE retryAsyncFrom(_, _, _, _, _, _)
retryAsyncFrom(outcomes, maxRetries, baseDelay, exponentialBackoff, attempt, delays) ==
    IF attempt > maxRetries
    THEN [attempts |-> attempt, delays |-> delays, threw |-> TRUE, result |-> 0,
          error |-> attempt]
    ELSE IF outcomes[attempt + 1]
    THEN [attempts |-> attempt + 1, delays |-> delays, threw |-> FALSE,
          result |-> attempt + 1, error |-> 0]
    ELSE IF attempt = maxRetries
    THEN [attempts |-> attempt + 1, delays |-> delays, threw |-> TRUE, result |-> 0,
          error |-> attempt + 1]
    ELSE retryAsyncFrom(outcomes, maxRetries, baseDelay, exponentialBackoff, attempt + 1,
                        Append(delays, retryDelay(baseDelay, attempt, exponentialBackoff)))

retryAsync(outcomes, maxRetries, baseDelay, exponentialBackoff) ==
    retryAsyncFrom(outcomes, maxRetries, baseDelay, exponentialBackoff, 0, <<>>)

\* operations, retry counts and delays given to retryAsync
MAX_RETRIES == 3
RETRY_DELAY_MS == 2000
RetryCounts == 0..MAX_RETRIES
RetryOutcomes == [1..(MAX_RETRIES + 1) -> BOOLEAN]
RetryBaseDelays == { 1000, RETRY_DELAY_MS }

\* status answers given to one DeBridge monitoring run
MonitorScripts ==
    PollScripts \cup
    { <<"Created", "Cancelled">>, <<"Cancelled", "OrderCompleted">>,
      <<"HttpNotOk", "Created", "SentUnlock", "OrderCompleted">> }

\* price histories given to getTWAP at time TwapNow: up to two samples, each
\* older than the window, exactly as old as the window, or within it
TwapNow == 400000
TwapTimestamps == { 50000, 100000, 250000, 390000 }
TwapPrices == { 999500, 1000000, 1000500 }
TwapSamples == [price : TwapPrices, timestamp : TwapTimestamps]
TwapHistories ==
    { <<>> } \cup { <<a>> : a \in TwapSamples }
             \cup { <<a, b>> : a \in TwapSamples, b \in TwapSamples }
ClockAdvances == { 0, 1 }

\* amounts, allowances and receipts given to executeSwapExactIn
SwapAmounts == { 1000, 1000000 }
Allowances(amount) == { 0, amount - 1, amount, 2 * amount }
ReceiptGasUsed == { 150000, 210000 }

\* values of sqrtPriceX96 given to the conversion, as mantissa and exponent
\* of two: 0, powers of two over the whole uint160 range, and values around
\* 2^96 (a price of 1) inside and outside the band of a stable pair
SqrtPrices ==
    { <<0, 0>> }
    \cup { <<1, e>> : e \in {0, 1, 40, 80, 95, 96, 97, 120, 159} }
    \cup { <<n, e>> : n \in {3, 181, 182, 255, 257, 362, 363}, e \in 86..90 }

PureInputs ==
    { FnInput("validateOpportunity", q, p, 0, {}) : q \in QuoteMaps, p \in PricePairs }
    \cup
    { FnInput("getAllQuotes", [v \in {} |-> 0], <<0, 0>>, a, f) :
          a \in QuoteAmounts, f \in SUBSET Venues }
    \cup
    { FnInput("getBestQuote", q, <<0, 0>>, 0, Venues \ DOMAIN q) : q \in BestQuoteMaps }
    \cup
    { [fn |-> "getBestBridgeStrategy", token |-> t, fromChainId |-> f, toChainId |-> d] :
          t \in Tokens, f \in ChainIds, d \in ChainIds }
    \cup
    { [fn |-> "executeSimulationBridge", amount |-> a, bridgeTime |-> t] :
          a \in SimulationAmounts, t \in BridgeTimes }
    \cup
    { [fn |-> "calculatePriceDifference", price1 |-> p1, price2 |-> p2] :
          p1 \in PriceValues, p2 \in PriceValues }
    \cup
    { i \in ProfitInputs : Abs(i.sellPrice - i.buyPrice) <= 1000 \/ i.amount <= 1500 }
    \cup
    { [fn |-> "calculateNetProfit", grossProfit |-> g, gasCosts |-> c,
       bridgeCosts |-> b, slippageCosts |-> sl] :
          g \in GrossProfits, c \in GasCosts, b \in BridgeCosts, sl \in SlippageCosts }
    \cup
    { [fn |-> "checkArbitrageOpportunities", prices |-> p, testing |-> t,
       profitThreshold |-> th] :
          p \in AnalysisPrices, t \in BOOLEAN, th \in ProfitThresholds }
    \cup
    { [fn |-> "monitorBridgeTransaction", script |-> sc] : sc \in MonitorScripts }
    \cup
    UNION { { [fn |-> "executeSwapExactIn", venue |-> v, amountIn |-> am, allowance |-> al,
               approval |-> ap, swap |-> sw, gasUsed |-> g] :
                 al \in Allowances(am), v \in Venues, ap \in TxOutcomes,
                 sw \in TxOutcomes, g \in ReceiptGasUsed } : am \in SwapAmounts }
    \cup
    { [fn |-> "sqrtPriceX96ToPrice", n |-> sp[1], e |-> sp[2]] : sp \in SqrtPrices }
    \cup
    { [fn |-> "getTWAP", history |-> h, elapsed |-> e] :
          h \in TwapHistories, e \in ClockAdvances }
    \cup
    { [fn |-> "retryAsync", outcomes |-> o, maxRetries |-> m, baseDelay |-> d,
       exponentialBackoff |-> x] :
          o \in RetryOutcomes, m \in RetryCounts, d \in RetryBaseDelays, x \in BOOLEAN }

InitPure ==
    /\ isExecuting = FALSE
    /\ executionHistory = <<>>
    /\ simulationMode = TRUE
    /\ calls = [c \in Slots |-> IdleCall]
    /\ admitted = 0
    /\ fnIn \in PureInputs
    /\ fnOut = NoFn
    /\ SupervisorConstructed(TRUE, FALSE)

ApplyValidateOpportunity ==
    /\ fnIn.fn = "validateOpportunity"
    /\ fnOut = NoFn
    /\ fnOut' = [fn |-> "validateOpportunity",
                 error |-> validateOpportunity([threw |-> FALSE, quotes |-> fnIn.quotes],
                                               fnIn.buyPrice, fnIn.sellPrice)]
    /\ UNCHANGED <<isExecuting, executionHistory, simulationMode, calls, admitted, fnIn, supervisorVars, priceMonitorVars>>

ApplyGetAllQuotes ==
    /\ fnIn.fn = "getAllQuotes"
    /\ fnOut = NoFn
    /\ fnOut' = [fn |-> "getAllQuotes", result |-> getAllQuotes(fnIn.amountIn, fnIn.failed)]
    /\ UNCHANGED <<isExecuting, executionHistory, simulationMode, calls, admitted, fnIn, supervisorVars, priceMonitorVars>>

ApplyGetBestQuote ==
    /\ fnIn.fn = "getBestQuote"
    /\ fnOut = NoFn
    /\ fnOut' = [fn |-> "getBestQuote",
                 result |-> getBestQuote([threw |-> FALSE, quotes |-> fnIn.quotes])]
    /\ UNCHANGED <<isExecuting, executionHistory, simulationMode, calls, admitted, fnIn, supervisorVars, priceMonitorVars>>

ApplyGetBestBridgeStrategy ==
    /\ fnIn.fn = "getBestBridgeStrategy"
    /\ fnOut = NoFn
    /\ fnOut' = [fn |-> "getBestBridgeStrategy",
                 result |-> getBestBridgeStrategy(fnIn.token, fnIn.fromChainId, fnIn.toChainId)]
    /\ UNCHANGED <<isExecuting, executionHistory, simulationMode, calls, admitted, fnIn, supervisorVars, priceMonitorVars>>

ApplyExecuteSimulationBridge ==
    /\ fnIn.fn = "executeSimulationBridge"
    /\ fnOut = NoFn
    /\ fnOut' = [fn |-> "executeSimulationBridge",
                 result |-> executeSimulationBridge(fnIn.amount, fnIn.bridgeTime)]
    /\ UNCHANGED <<isExecuting, executionHistory, simulationMode, calls, admitted, fnIn, supervisorVars, priceMonitorVars>>

ApplyCalculatePriceDifference ==
    /\ fnIn.fn = "calculatePriceDifference"
    /\ fnOut = NoFn
    /\ fnOut' = [fn |-> "calculatePriceDifference",
                 result |-> calculatePriceDifference(fnIn.price1, fnIn.price2)]
    /\ UNCHANGED <<isExecuting, executionHistory, simulationMode, calls, admitted, fnIn, supervisorVars, priceMonitorVars>>

ApplyCalculateArbitrageProfit ==
    /\ fnIn.fn = "calculateArbitrageProfit"
    /\ fnOut = NoFn
    /\ fnOut' = [fn |-> "calculateArbitrageProfit",
                 result |-> calculateArbitrageProfit(fnIn.buyPrice, fnIn.sellPrice,
                                                     fnIn.amount)]
    /\ UNCHANGED <<isExecuting, executionHistory, simulationMode, calls, admitted, fnIn, supervisorVars, priceMonitorVars>>

ApplyCalculateNetProfit ==
    /\ fnIn.fn = "calculateNetProfit"
    /\ fnOut = NoFn
    /\ fnOut' = [fn |-> "calculateNetProfit",
                 result |-> calculateNetProfit(Big(0, fnIn.grossProfit),
                                               Big(0, fnIn.gasCosts),
                                               Big(0, fnIn.bridgeCosts),
                                               Big(0, fnIn.slippageCosts))]
    /\ UNCHANGED <<isExecuting, executionHistory, simulationMode, calls, admitted, fnIn, supervisorVars, priceMonitorVars>>

ApplyCheckArbitrageOpportunities ==
    /\ fnIn.fn = "checkArbitrageOpportunities"
    /\ fnOut = NoFn
    /\ fnOut' = [fn |-> "checkArbitrageOpportunities",
                 result |-> executionQueue(fnIn.prices, fnIn.testing,
                                           fnIn.profitThreshold)]
    /\ UNCHANGED <<isExecuting, executionHistory, simulationMode, calls, admitted, fnIn, supervisorVars, priceMonitorVars>>

ApplyMonitorBridgeTransaction ==
    /\ fnIn.fn = "monitorBridgeTransaction"
    /\ fnOut = NoFn
    /\ fnOut' = [fn |-> "monitorBridgeTransaction",
                 result |-> monitorDeBridgeRun(0, fnIn.script, 1)]
    /\ UNCHANGED <<isExecuting, executionHistory, simulationMode, calls, admitted, fnIn, supervisorVars, priceMonitorVars>>

ApplyGetTWAP ==
    /\ fnIn.fn = "getTWAP"
    /\ fnOut = NoFn
    /\ fnOut' = [fn |-> "getTWAP",
                 result |-> getTWAP(fnIn.history, TwapNow, fnIn.elapsed, TWAP_WINDOW)]
    /\ UNCHANGED <<isExecuting, executionHistory, simulationMode, calls, admitted, fnIn,
                   supervisorVars, priceMonitorVars>>

ApplyExecuteSwapExactIn ==
    /\ fnIn.fn = "executeSwapExactIn"
    /\ fnOut = NoFn
    /\ fnOut' = [fn |-> "executeSwapExactIn",
                 result |-> executeSwapExactIn(fnIn.venue, fnIn.amountIn, fnIn.allowance,
                                               fnIn.approval, fnIn.swap, fnIn.gasUsed)]
    /\ UNCHANGED <<isExecuting, executionHistory, simulationMode, calls, admitted, fnIn,
                   supervisorVars, priceMonitorVars>>

ApplySqrtPriceX96ToPrice ==
    /\ fnIn.fn = "sqrtPriceX96ToPrice"
    /\ fnOut = NoFn
    /\ fnOut' = [fn |-> "sqrtPriceX96ToPrice", result |-> sqrtPriceX96ToPrice(fnIn.n, fnIn.e)]
    /\ UNCHANGED <<isExecuting, executionHistory, simulationMode, calls, admitted, fnIn,
                   supervisorVars, priceMonitorVars>>

ApplyRetryAsync ==
    /\ fnIn.fn = "retryAsync"
    /\ fnOut = NoFn
    /\ fnOut' = [fn |-> "retryAsync",
                 result |-> retryAsync(fnIn.outcomes, fnIn.maxRetries, fnIn.baseDelay,
                                       fnIn.exponentialBackoff)]
    /\ UNCHANGED <<isExecuting, executionHistory, simulationMode, calls, admitted, fnIn,
                   supervisorVars, priceMonitorVars>>

NextPure ==
    \/ ApplyExecuteSimulationBridge
    \/ ApplyValidateOpportunity
    \/ ApplyGetAllQuotes
    \/ ApplyGetBestQuote
    \/ ApplyGetBestBridgeStrategy
    \/ ApplyCalculatePriceDifference
    \/ ApplyCalculateArbitrageProfit
    \/ ApplyCalculateNetProfit
    \/ ApplyCheckArbitrageOpportunities
    \/ ApplyMonitorBridgeTransaction
    \/ ApplyGetTWAP
    \/ ApplyExecuteSwapExactIn
    \/ ApplySqrtPriceX96ToPrice
    \/ ApplyRetryAsync

SpecPure == InitPure /\ [][NextPure]_vars

\* ------------------------------------------------------------ PriceMonitor

PoolKeys == <<"pharaoh", "shadow">>

\* the PriceData fetched for a pool in monitoring cycle t; its timestamp is
\* the time of the cycle, its price moves around parity
PriceSample(poolKey, t) ==
    [pool |-> poolKey,
     price0 |-> IF poolKey = "pharaoh" THEN 1000000 + (t % 3) * 500
                ELSE 1000000 - (t % 4) * 250,
     timestamp |-> t]

\* the history array after storePriceData pushed priceData on it
storePriceData_evictsNewest(history, priceData) ==
    IF Len(history) < MAX_PRICE_HISTORY THEN Append(history, priceData) ELSE history

storePriceData(history, priceData) ==
    LET pushed == Append(history, priceData)
    IN  IF Len(pushed) > MAX_PRICE_HISTORY THEN Tail(pushed) ELSE pushed

\* PriceMonitor.storePriceData on the maps: the key gets an empty history
\* when it has none, then the sample is stored
priceHistoryAfter(history, poolKey, priceData) ==
    [k \in DOMAIN history \cup {poolKey} |->
        IF k = poolKey
        THEN storePriceData(IF poolKey \in DOMAIN history THEN history[poolKey] ELSE <<>>,
                            priceData)
        ELSE history[k]]

lastPriceUpdateAfter(updates, poolKey, now) ==
    [k \in DOMAIN updates \cup {poolKey} |-> IF k = poolKey THEN now ELSE updates[k]]

\* time of the last monitoring cycle that stored prices, 0 before the first
LastCycle ==
    IF "pharaoh" \in DOMAIN lastPriceUpdate THEN lastPriceUpdate["pharaoh"] ELSE 0

\* fetchAllPrices after both pool prices were fetched: the sample of each
\* pool is stored, Pharaoh's first
PricesFetched ==
    /\ LastCycle < MaxCycles
    /\ LET now == LastCycle + 1
           afterPharaoh == priceHistoryAfter(priceHistory, PoolKeys[1],
                                             PriceSample(PoolKeys[1], now))
       IN  /\ priceHistory' = priceHistoryAfter(afterPharaoh, PoolKeys[2],
                                                PriceSample(PoolKeys[2], now))
           /\ lastPriceUpdate' =
                  lastPriceUpdateAfter(lastPriceUpdateAfter(lastPriceUpdate, PoolKeys[1], now),
                                       PoolKeys[2], now)
    /\ UNCHANGED <<isExecuting, executionHistory, simulationMode, calls, admitted, fnIn, fnOut,
                   supervisorVars, monitoringSessions, startCalls, fetchCycles, clock>>

NextPriceHistory == PricesFetched

SpecPriceHistory == Init /\ [][NextPriceHistory]_vars

\* ------------------------------------------- PriceMonitor (polling timers)

\* A session is one call of startMonitoring that went past its check.  It is
\* "fetching" while the call awaits its initial fetch, "timer" once
\* setInterval was called, "rejected" when the initial fetch threw, and
\* "cleared" once the interval callback called clearInterval.  `stopped`
\* tells that stopMonitoring was called since the session began, `fetches`
\* counts the fetches its timer made, `ranStopped` that one was made after
\* the session was stopped.
NewSession == [phase |-> "fetching", stopped |-> FALSE, fetches |-> 0, ranStopped |-> FALSE]

SessionIds == 1..Len(monitoringSessions)

\* the rest of the state, which the price monitor's timers leave alone
monitorFrame ==
    <<isExecuting, executionHistory, simulationMode, calls, admitted, fnIn, fnOut,
      isRunning, testingMode, supervisorSimulationMode, testExecutionComplete, metrics,
      loops, stopCalled, finalMetricsShown, executionsStarted, priceHistory, lastPriceUpdate,
      fetchCycles, clock>>

\* startMonitoring up to its await: a no-op while isMonitoring is set
StartMonitoring ==
    /\ startCalls < MaxStartCalls
    /\ startCalls' = startCalls + 1
    /\ IF isMonitoring
       THEN UNCHANGED <<isMonitoring, monitoringSessions>>
       ELSE /\ isMonitoring' = TRUE
            /\ monitoringSessions' = Append(monitoringSessions, NewSession)
    /\ UNCHANGED monitorFrame

\* the initial fetch of a startMonitoring call settles: setInterval is
\* called whatever isMonitoring is by then, or the call rejects with the
\* PriceError and sets no timer
InitialFetchSettled(n, ok) ==
    /\ monitoringSessions[n].phase = "fetching"
    /\ monitoringSessions' =
          [monitoringSessions EXCEPT ![n].phase = IF ok THEN "timer" ELSE "rejected"]
    /\ UNCHANGED <<isMonitoring, startCalls>>
    /\ UNCHANGED monitorFrame

\* the interval callback of a session's timer runs: it clears its interval
\* when isMonitoring is not set, else it fetches the prices
TimerTick(n) ==
    /\ monitoringSessions[n].phase = "timer"
    /\ IF ~isMonitoring
       THEN monitoringSessions' = [monitoringSessions EXCEPT ![n].phase = "cleared"]
       ELSE /\ monitoringSessions[n].fetches < MaxFetches
            /\ monitoringSessions' =
                  [monitoringSessions EXCEPT ![n].fetches = @ + 1,
                                             ![n].ranStopped = @ \/ monitoringSessions[n].stopped]
    /\ UNCHANGED <<isMonitoring, startCalls>>
    /\ UNCHANGED monitorFrame

\* stopMonitoring: it clears the flag; the sessions begun so far are stopped
StopMonitoring ==
    /\ isMonitoring' = FALSE
    /\ monitoringSessions' =
          [n \in SessionIds |-> [monitoringSessions[n] EXCEPT !.stopped = TRUE]]
    /\ UNCHANGED startCalls
    /\ UNCHANGED monitorFrame

NextPriceTimers ==
    \/ StartMonitoring
    \/ \E n \in SessionIds, ok \in BOOLEAN : InitialFetchSettled(n, ok)
    \/ \E n \in SessionIds : TimerTick(n)
    \/ StopMonitoring

SpecPriceTimers == Init /\ [][NextPriceTimers]_vars

\* ----------------------------------------- PriceMonitor (overlapping cycles)

\* A cycle is one call of fetchAllPrices.  The interval callback is async, so
\* a tick starts a cycle whether or not the cycle of the tick before it has
\* settled.  `pharaoh` and `shadow` hold the timestamp of the PriceData each
\* fetch returned, 0 while that fetch is pending.
NewCycle == [phase |-> "fetching", pharaoh |-> 0, shadow |-> 0]

CycleIds == 1..Len(fetchCycles)

\* the rest of the state, which a fetch cycle leaves alone
cycleFrame ==
    <<isExecuting, executionHistory, simulationMode, calls, admitted, fnIn, fnOut,
      supervisorVars, monitoringSessions, startCalls>>

\* a timer tick calls fetchAllPrices, which starts both fetches
CycleBegins ==
    /\ Len(fetchCycles) < MaxFetchCycles
    /\ fetchCycles' = Append(fetchCycles, NewCycle)
    /\ clock' = clock + 1
    /\ UNCHANGED <<priceHistory, lastPriceUpdate>>
    /\ UNCHANGED cycleFrame

\* fetchPharaohV3Price or fetchShadowV3Price of a cycle returns its
\* PriceData, stamped with the time of its return.  When the other fetch of
\* the cycle has returned too, Promise.all resolves and fetchAllPrices goes
\* on in the same turn: it stores the sample of each pool, Pharaoh's first.
PoolPriceFetched(c, poolKey) ==
    /\ fetchCycles[c].phase = "fetching"
    /\ fetchCycles[c][poolKey] = 0
    /\ clock' = clock + 1
    /\ LET fetched == [fetchCycles[c] EXCEPT ![poolKey] = clock']
           afterPharaoh == priceHistoryAfter(priceHistory, PoolKeys[1],
                                             PriceSample(PoolKeys[1], fetched.pharaoh))
       IN  IF fetched.pharaoh # 0 /\ fetched.shadow # 0
           THEN /\ fetchCycles' = [fetchCycles EXCEPT ![c] = [fetched EXCEPT !.phase = "stored"]]
                /\ priceHistory' = priceHistoryAfter(afterPharaoh, PoolKeys[2],
                                                     PriceSample(PoolKeys[2], fetched.shadow))
                /\ lastPriceUpdate' =
                       lastPriceUpdateAfter(
                           lastPriceUpdateAfter(lastPriceUpdate, PoolKeys[1], clock'),
                           PoolKeys[2], clock')
           ELSE /\ fetchCycles' = [fetchCycles EXCEPT ![c] = fetched]
                /\ UNCHANGED <<priceHistory, lastPriceUpdate>>
    /\ UNCHANGED cycleFrame

\* one of the fetches of a cycle throws: Promise.all rejects, fetchAllPrices
\* throws a PriceError and stores nothing
PoolFetchFailed(c, poolKey) ==
    /\ fetchCycles[c].phase = "fetching"
    /\ fetchCycles[c][poolKey] = 0
    /\ clock' = clock + 1
    /\ fetchCycles' = [fetchCycles EXCEPT ![c].phase = "failed"]
    /\ UNCHANGED <<priceHistory, lastPriceUpdate>>
    /\ UNCHANGED cycleFrame

\* PriceMonitor.getLatestPrice: [isNull, sample]
getLatestPrice(history, poolKey) ==
    IF poolKey \notin DOMAIN history \/ Len(history[poolKey]) = 0
    THEN [isNull |-> TRUE, sample |-> PriceSample(poolKey, 0)]
    ELSE [isNull |-> FALSE, sample |-> history[poolKey][Len(history[poolKey])]]

NextOverlappingCycles ==
    \/ CycleBegins
    \/ \E c \in CycleIds, k \in {"pharaoh", "shadow"} : PoolPriceFetched(c, k)
    \/ \E c \in CycleIds, k \in {"pharaoh", "shadow"} : PoolFetchFailed(c, k)

SpecOverlappingCycles == Init /\ [][NextOverlappingCycles]_vars

\* ================================================================== claims

InFlightSlots == {c \in Slots : InFlight(c)}

\* slot c's promise is new in the next state: executeArbitrage was called
Called(c) == ~InFlight(c) /\ calls'[c] # calls[c]

AllPending(statuses) == \A j \in 1..Len(statuses) : statuses[j] = "pending"

\* C1: a call of executeArbitrage made while the in-progress flag is set fails
\* with EXECUTION_IN_PROGRESS and changes nothing: the flag stays set, the
\* history is as it was, and every other call (with all its steps) is as it
\* was.
C1_RejectedCallChangesNothing ==
    [][\A c \in Slots :
          (Called(c) /\ isExecuting) =>
              /\ calls'[c].pc = "rejected"
              /\ calls'[c].error = "EXECUTION_IN_PROGRESS"
              /\ isExecuting'
              /\ executionHistory' = executionHistory
              /\ admitted' = admitted
              /\ \A d \in Slots \ {c} : calls'[d] = calls[d]]_vars

\* C1 witness: a call was rejected while another execution, admitted before
\* it, is in the middle of a step and the flag is set.
C1_Witness ==
    \E c, d \in Slots :
        /\ calls[c].pc = "rejected"
        /\ calls[d].pc \in {"swap", "bridge", "monitor", "wait"}
        /\ calls[d].steps[calls[d].i].status = "executing"
        /\ isExecuting

\* C2: at most one execution is in flight (admitted and not yet returned) in
\* every reachable state.
C2_AtMostOneInFlight == Cardinality(InFlightSlots) <= 1

\* C3: whenever an admitted call returns, on any exit path, the flag is clear
\* in the state it returns in; and a call made while the flag is clear is
\* admitted.
C3_FlagClearedOnEveryReturn ==
    [][/\ \A c \in Slots :
             (InFlight(c) /\ calls'[c].pc = "returned") => ~isExecuting'
       /\ \A c \in Slots :
             (Called(c) /\ ~isExecuting) => (calls'[c].pc = "plan" /\ isExecuting')]_vars

\* C3 witness: an execution that failed has returned and the call made after
\* it has been admitted.
C3_Witness ==
    /\ Len(executionHistory) = 1
    /\ ~executionHistory[1].success
    /\ \E c \in Slots : calls[c].pc = "plan" /\ InFlightSlots = {c}
    /\ isExecuting

\* C4: re-validation comes after plan construction and before the first step.
\* While it is pending the plan exists, all its steps are pending and no swap
\* or bridge call has been made; and whenever both venues quoted and the
\* current price difference is less than half of the original one, the call
\* ends with a PRICE_MOVED_AGAINST_US failure result, every step still
\* pending, nothing completed, no swap or bridge call made.
C4_RevalidationAbortsBeforeAnyStep ==
    \A c \in Slots :
        LET r == calls[c]
            bothQuoted == {"pharaoh", "shadow"} \subseteq DOMAIN r.quotes
        IN  /\ r.pc = "validate" =>
                  (Len(r.steps) = 6 /\ AllPending(PlanStatus(r.steps)) /\ r.venueCalls = 0)
            /\ (r.pc \in {"swap", "bridge", "monitor", "wait", "planDone", "catch", "returned"}
                /\ bothQuoted
                /\ 2 * Abs(r.quotes["pharaoh"] - r.quotes["shadow"])
                     * Min(r.opp.buyPrice, r.opp.sellPrice)
                   < Abs(r.opp.buyPrice - r.opp.sellPrice)
                     * Min(r.quotes["pharaoh"], r.quotes["shadow"]))
               => /\ r.pc \in {"catch", "returned"}
                  /\ r.error = "PRICE_MOVED_AGAINST_US"
                  /\ AllPending(PlanStatus(r.steps))
                  /\ r.venueCalls = 0
                  /\ r.transactions = 0
                  /\ r.pc = "returned" =>
                        /\ ~r.result.success
                        /\ r.result.error = "PRICE_MOVED_AGAINST_US"
                        /\ Len(r.result.planStatus) = 6
                        /\ AllPending(r.result.planStatus)
                        /\ r.result.completedSteps = <<>>
                        /\ \E k \in 1..Len(executionHistory) : executionHistory[k] = r.result

\* C4 witness: an execution was aborted by re-validation and its failure is in
\* the history.
C4_Witness ==
    \E c \in Slots :
        /\ calls[c].pc = "returned"
        /\ calls[c].result.error = "PRICE_MOVED_AGAINST_US"
        /\ calls[c].opp.buyPrice # calls[c].opp.sellPrice
        /\ \E k \in 1..Len(executionHistory) :
              executionHistory[k].error = "PRICE_MOVED_AGAINST_US"

\* The spread of two positive numbers against a percentage given in basis
\* points: |x - y| / min(x, y) compared with bp / 10000.
SpreadIs(x, y, bp) == 10000 * Abs(x - y) = bp * Min(x, y)
SpreadBelow(x, y, bp) == 10000 * Abs(x - y) < bp * Min(x, y)

ValidatedAtOnePercent ==
    /\ fnOut.fn = "validateOpportunity"
    /\ DOMAIN fnIn.quotes = Venues
    /\ SpreadIs(fnIn.buyPrice, fnIn.sellPrice, 100)

StepsBetween(r, lo, hi, types) ==
    Cardinality({j \in lo..hi : r.steps[j].type \in types})

\* C6: when a step fails the execution halts there: the step is failed, the
\* steps before it are completed and are exactly the completed steps of the
\* result, the steps after it are pending for good, only the operations of
\* the steps up to the failing one were called (nothing compensating), and
\* the result (success = false, failedStep = that step) is returned and
\* stored, not thrown.
C6_FailedStepHaltsExecution ==
    \A c \in Slots :
        LET r == calls[c]
            k == r.result.failedStep
        IN  /\ (\E j \in 1..Len(r.steps) : r.steps[j].status = "failed")
                  => (r.pc \in {"planDone", "returned"} /\ k > 0)
            /\ (r.pc \in {"planDone", "returned"} /\ k > 0) =>
                  /\ ~r.result.success
                  /\ r.steps[k].status = "failed"
                  /\ \A j \in 1..Len(r.steps) :
                        /\ j < k => r.steps[j].status = "completed"
                        /\ j > k => r.steps[j].status = "pending"
                  /\ r.result.planStatus = PlanStatus(r.steps)
                  /\ Len(r.result.completedSteps) = k - 1
                  /\ \A j \in 1..(k - 1) : r.result.completedSteps[j] = r.steps[j]
                  /\ r.venueCalls = StepsBetween(r, 1, k, {"swap", "bridge"})
                  /\ r.pc = "returned" =>
                        \E h \in 1..Len(executionHistory) : executionHistory[h] = r.result

\* C6 witness: the fourth step failed after three completed ones and the
\* result has been returned.
C6_Witness ==
    \E c \in Slots :
        /\ calls[c].pc = "returned"
        /\ calls[c].result.failedStep = 4
        /\ Len(calls[c].result.completedSteps) = 3
        /\ calls[c].steps[5].status = "pending"

StepTypes(steps) == [j \in 1..Len(steps) |-> steps[j].type]

\* C7: a plan has exactly six steps, in the order swap, bridge, wait, swap,
\* bridge, wait for avalanche-to-sonic and bridge, wait, swap, bridge, wait,
\* swap for sonic-to-avalanche; all are pending when the plan is created.
C7_PlanHasSixStepsInOrder ==
    \A c \in Slots :
        LET r == calls[c]
        IN  /\ r.pc = "validate" => AllPending(PlanStatus(r.steps))
            /\ r.pc \in InFlightPcs \ {"plan"} =>
                  /\ Len(r.steps) = 6
                  /\ r.opp.direction = "avalanche-to-sonic" =>
                        StepTypes(r.steps) = <<"swap", "bridge", "wait", "swap", "bridge", "wait">>
                  /\ r.opp.direction = "sonic-to-avalanche" =>
                        StepTypes(r.steps) = <<"bridge", "wait", "swap", "bridge", "wait", "swap">>

\* C7 witness: a sonic-to-avalanche plan has just been created.
C7_Witness ==
    \E c \in Slots :
        /\ calls[c].pc = "validate"
        /\ calls[c].opp.direction = "sonic-to-avalanche"
        /\ Len(calls[c].steps) = 6

\* the monitoring run of r's bridge leg gets no completed status in any poll
\* made before the timeout (DeBridge), or has no completion signal to get
\* within it (CCIP)
NeverTerminal(r) ==
    \/ r.provider = "ccip"
    \/ /\ r.provider = "debridge"
       /\ \A n \in 1..(BRIDGE_TIMEOUT \div DEBRIDGE_POLL_INTERVAL) :
             ScriptAt(r.script, n) \notin {"OrderCompleted", "ClaimCompleted"}

\* C8: when the monitoring of a bridge leg reaches no terminal state within
\* the timeout, the plan result has success = false, that bridge step is the
\* failed step, and the completed steps are the steps before it (one swap for
\* the first bridge of an avalanche-to-sonic plan); the leg is not completed
\* through the simulation provider instead.
C8_MonitoringTimeoutFailsBridgeStep ==
    [][\A c \in Slots :
          (calls[c].pc = "monitor" /\ calls'[c] # calls[c] /\ NeverTerminal(calls[c])) =>
              LET r == calls[c]
                  q == calls'[c]
              IN  /\ q.pc = "planDone"
                  /\ ~q.result.success
                  /\ q.result.failedStep = r.i
                  /\ q.steps[r.i].type = "bridge"
                  /\ q.steps[r.i].status = "failed"
                  /\ q.result.completedSteps = r.completedSteps
                  /\ Len(q.result.completedSteps) = r.i - 1
                  /\ \A j \in 1..(r.i - 1) : q.result.completedSteps[j].status = "completed"
                  /\ (r.opp.direction = "avalanche-to-sonic" /\ r.i = 2) =>
                        (Len(q.result.completedSteps) = 1
                         /\ q.result.completedSteps[1].type = "swap")]_vars

\* C8 witness: the first bridge of an avalanche-to-sonic plan timed out in
\* monitoring; the result holds the preceding swap only.
C8_Witness ==
    \E c \in Slots :
        /\ calls[c].pc = "returned"
        /\ calls[c].opp.direction = "avalanche-to-sonic"
        /\ calls[c].result.error = "BRIDGE_MONITORING_TIMEOUT"
        /\ calls[c].result.failedStep = 2
        /\ Len(calls[c].result.completedSteps) = 1

\* C9: the history only grows, by one result at a time and at its end; each
\* admitted call appends exactly one result, when it returns; a rejected call
\* appends none; the number of results is the number of admitted calls that
\* have returned.
C9_HistoryAppendOnly ==
    [][/\ Len(executionHistory') \in {Len(executionHistory), Len(executionHistory) + 1}
       /\ SubSeq(executionHistory', 1, Len(executionHistory)) = executionHistory
       /\ \A c \in Slots :
             (InFlight(c) /\ ~InFlight(c)') =>
                 /\ Len(executionHistory') = Len(executionHistory) + 1
                 /\ executionHistory'[Len(executionHistory')].opportunityId = calls[c].opp.id
       /\ Len(executionHistory') = Len(executionHistory) + 1 =>
             Cardinality({c \in Slots : InFlight(c) /\ ~InFlight(c)'}) = 1
       /\ \A c \in Slots :
             (Called(c) /\ calls'[c].pc = "rejected") => executionHistory' = executionHistory
       /\ Len(executionHistory') + Cardinality(InFlightSlots') = admitted']_vars

\* C9 witness: two admitted calls have returned, a success and then a
\* failure, and the history holds their two results in that order.
C9_Witness ==
    /\ Len(executionHistory) = 2
    /\ executionHistory[1].success
    /\ ~executionHistory[2].success
    /\ admitted = 2

\* C10: with one venue's quote call failing and the other succeeding,
\* getAllQuotes returns exactly the successful venue's quote and does not
\* throw; in general it returns the quotes of exactly the venues that
\* answered.
C10_QuotesOfExactlyTheVenuesThatAnswered ==
    fnOut.fn = "getAllQuotes" =>
        /\ ~fnOut.result.threw
        /\ DOMAIN fnOut.result.quotes = Venues \ fnIn.failed
        /\ "pharaoh" \notin fnIn.failed =>
              fnOut.result.quotes["pharaoh"] = (fnIn.amountIn * 9995) \div 10000
        /\ "shadow" \notin fnIn.failed =>
              fnOut.result.quotes["shadow"] = (fnIn.amountIn * 9992) \div 10000

\* C10 witness: Pharaoh failed, Shadow answered, and the result holds the
\* Shadow quote alone.
C10_Witness ==
    /\ fnOut.fn = "getAllQuotes"
    /\ fnIn.failed = {"pharaoh"}
    /\ DOMAIN fnOut.result.quotes = {"shadow"}
    /\ fnOut.result.quotes["shadow"] > 0

\* C11: getBestQuote returns, of the venues that quoted, one whose output
\* amount is the largest, with that venue's tag; it throws a SwapError exactly
\* when no venue quoted.
C11_BestQuoteIsLargestOfAvailable ==
    fnOut.fn = "getBestQuote" =>
        LET quotes == fnIn.quotes
            res == fnOut.result
        IN  /\ res.threw <=> DOMAIN quotes = {}
            /\ res.threw => res.error = "SWAP_ERROR"
            /\ ~res.threw =>
                  /\ res.best.dex \in DOMAIN quotes
                  /\ res.best.amountOut = quotes[res.best.dex]
                  /\ \A v \in DOMAIN quotes : quotes[v] <= res.best.amountOut

\* C11 witness: both venues quoted, Shadow quoted more, Shadow was returned.
C11_Witness ==
    /\ fnOut.fn = "getBestQuote"
    /\ DOMAIN fnIn.quotes = Venues
    /\ fnIn.quotes["shadow"] > fnIn.quotes["pharaoh"]
    /\ ~fnOut.result.threw
    /\ fnOut.result.best.dex = "shadow"

\* C12: a bridge step handed to DeBridge or CCIP never fails at execution:
\* executeBridge settles with the provider's result or, the provider having
\* thrown, with the simulation provider's result (provider 'simulation',
\* output amount - amount/1000), the step still executing; and the
\* monitoring of a simulated bridge completes the step.
C12_ExecutionFailureFallsBackToSimulation ==
    [][\A c \in Slots :
          LET r == calls[c]
              q == calls'[c]
          IN  /\ (r.pc = "bridge" /\ r.provider \in {"debridge", "ccip"} /\ q # r) =>
                    /\ q.pc = "monitor"
                    /\ q.steps[r.i].status = "executing"
                    /\ q.error = "none"
                    /\ q.fellBack =>
                          /\ q.provider = "simulation"
                          /\ q.currentAmount = r.currentAmount - (r.currentAmount \div 1000)
                    /\ ~q.fellBack => q.provider = r.provider
              /\ (r.pc = "monitor" /\ r.fellBack /\ q # r) =>
                    /\ q.steps[r.i].status = "completed"
                    /\ q.error = "none"
                    /\ Len(q.completedSteps) = r.i]_vars

\* C12 witness: the second bridge of a plan fell back to the simulation
\* provider and is being monitored, the steps before it completed.
C12_Witness ==
    \E c \in Slots :
        /\ calls[c].pc = "monitor"
        /\ calls[c].fellBack
        /\ calls[c].provider = "simulation"
        /\ Len(calls[c].completedSteps) >= 3

\* both chains of the request are among the chains the provider is
\* configured for (DeBridge and CCIP: Avalanche 43114 and Sonic 146)
BothChainsIn(chains) == fnIn.fromChainId \in chains /\ fnIn.toChainId \in chains

C14_SimulationOutputAndCompletion ==
    fnOut.fn = "executeSimulationBridge" =>
        LET res == fnOut.result
            fee == fnIn.amount - res.estimatedOutput
        IN  /\ res.provider = "simulation"
            /\ 1000 * fee <= fnIn.amount
            /\ fnIn.amount < 1000 * (fee + 1)
            /\ res.monitoring.status = "completed"
            /\ res.monitoring.after >= 60000
            /\ res.monitoring.after < 180000

\* C14 witness: 1999 units were bridged by the simulation provider, which
\* reported 1998 and completed.
C14_Witness ==
    /\ fnOut.fn = "executeSimulationBridge"
    /\ fnIn.amount = 1999
    /\ fnOut.result.estimatedOutput = 1998
    /\ fnOut.result.monitoring.status = "completed"


\* C15: the monitoring loop is left by its circuit breaker exactly when the
\* fifth consecutive iteration has failed: the count of consecutive failures
\* grows by one per failed iteration, an iteration that ends without error
\* puts it back to zero, the count is at the limit only in a loop that has
\* been left, a loop left while the system is still running has its count
\* at the limit, and a failure below the limit takes the loop to its short
\* sleep, from which the next iteration begins.
C15_BreakerAfterFiveConsecutiveFailures ==
    [][\A l \in Slots :
         LET r == loops[l]
             n == loops'[l]
         IN  /\ n.consecutiveErrors \in {0, r.consecutiveErrors, r.consecutiveErrors + 1}
             /\ n.consecutiveErrors <= maxConsecutiveErrors
             /\ n.pc = "sleep" => n.consecutiveErrors = 0
             /\ n.consecutiveErrors = maxConsecutiveErrors => n.pc = "exited"
             /\ (n.pc = "exited" /\ r.pc # "exited" /\ isRunning)
                  => /\ r.consecutiveErrors = maxConsecutiveErrors - 1
                     /\ n.consecutiveErrors = maxConsecutiveErrors
             /\ (n.consecutiveErrors = r.consecutiveErrors + 1
                   /\ n.consecutiveErrors < maxConsecutiveErrors)
                  => /\ n.pc = "errorSleep"
                     /\ isRunning' => ENABLED BeginIteration(l, "skip", NoPrices)]_vars

\* a loop left by the breaker while the system is running
C15_Witness ==
    \E l \in Slots : /\ loops[l].pc = "exited"
                      /\ loops[l].consecutiveErrors = maxConsecutiveErrors
                      /\ isRunning

\* C16: once stop() has been called, no arbitrage execution is started
\* (until start() is called again).
C16_NoExecutionStartsAfterStop ==
    [][stopCalled => executionsStarted' = executionsStarted]_vars

\* C17: the supervisor's counters agree in every state: the trades counted
\* are the successful ones plus the failed ones.
C17_TradesAreSuccessesPlusFailures ==
    metrics.totalTrades = metrics.successfulTrades + metrics.failedTrades

\* a call of executeArbitrage was rejected with an exception and counted as
\* a failed trade, while the execution that holds the engine is still running
C17_Witness ==
    /\ metrics.failedTrades = 1
    /\ executionHistory = <<>>
    /\ \E l \in Slots : calls[l].pc = "rejected" /\ loops[l].pc # "awaitExecution"

\* C18: the trades counted never exceed the results in the engine's
\* execution history.
C18_TradesWithinHistory ==
    metrics.totalTrades <= Len(executionHistory)


\* C19: for every pair of non-negative prices, calculatePriceDifference
\* gives the same number for both orders of its arguments, and that number
\* is not negative.
C19_PriceDifferenceSymmetricNonNegative ==
    fnOut.fn = "calculatePriceDifference"
        => /\ SameNumber(fnOut.result, calculatePriceDifference(fnIn.price2, fnIn.price1))
           /\ NonNegative(fnOut.result)

\* C20: calculateArbitrageProfit gives the floor of amount * spread / 10^6
\* when the sell price is above the buy price and zero otherwise;
\* calculateNetProfit gives the gross profit less the three costs, or zero
\* when that is negative; neither result is negative.
C20_ProfitFloorAndNetClamped ==
    /\ fnOut.fn = "calculateArbitrageProfit"
         => LET product == fnIn.amount * (fnIn.sellPrice - fnIn.buyPrice)
            IN  /\ fnOut.result >= 0
                /\ fnIn.sellPrice <= fnIn.buyPrice => fnOut.result = 0
                /\ fnIn.sellPrice > fnIn.buyPrice
                     => /\ fnOut.result * 1000000 <= product
                        /\ product < (fnOut.result + 1) * 1000000
    /\ fnOut.fn = "calculateNetProfit"
         => LET net == fnIn.grossProfit
                          - (fnIn.gasCosts + fnIn.bridgeCosts + fnIn.slippageCosts)
            IN  /\ ~BigLess(fnOut.result, BigZero)
                /\ fnOut.result = Big(0, IF net > 0 THEN net ELSE 0)
                /\ (fnIn.grossProfit = 100 /\ fnIn.gasCosts = 100 /\ fnIn.bridgeCosts = 50
                      /\ fnIn.slippageCosts = 0) => fnOut.result = BigZero
                /\ (fnIn.grossProfit = 150 /\ fnIn.gasCosts = 100 /\ fnIn.bridgeCosts = 0
                      /\ fnIn.slippageCosts = 0) => fnOut.result = Big(0, 50)
                /\ (fnIn.grossProfit = 1000 /\ fnIn.gasCosts = 500 /\ fnIn.bridgeCosts = 400
                      /\ fnIn.slippageCosts = 0) => fnOut.result = Big(0, 100)
    /\ (fnOut.fn = "calculateArbitrageProfit" /\ fnIn.buyPrice = 999500
          /\ fnIn.sellPrice = 1000500 /\ fnIn.amount = 1000000) => fnOut.result = 1000

\* costs above the gross profit: 100 against 150, clamped to zero
C20_Witness ==
    /\ fnOut.fn = "calculateNetProfit"
    /\ fnIn.grossProfit = 100
    /\ fnIn.gasCosts + fnIn.bridgeCosts + fnIn.slippageCosts = 150
    /\ fnOut.result = BigZero


\* the gas cost of the swap legs of a call: gasUsed * 20 gwei, summed
RECURSIVE SwapGasCost(_)
SwapGasCost(legs) ==
    IF legs = <<>> THEN BigZero
    ELSE BigAdd(IF Head(legs).type = "swap"
                THEN BigTimes(Head(legs).gasUsed, Big(GAS_PRICE_GWEI, 0)) ELSE BigZero,
                SwapGasCost(Tail(legs)))

\* the amount the next step of a call is given: the last step's output, or
\* the opportunity's amount before the first step
AmountAfter(r, k) == IF k = 0 THEN r.opp.amount ELSE r.legs[k].amountOut

\* C26: every step is given the output of the step before it (the first the
\* opportunity's amount), a wait step hands its amount on unchanged, and a
\* successful result's netProfit is the final amount less the trade amount
\* less the gas cost of the swaps at 20 gwei.
C26_AmountsChainAndNetProfit ==
    \A c \in Slots :
        LET r == calls[c]
        IN  /\ \A k \in 1..Len(r.legs) :
                  /\ r.legs[k].amountIn = AmountAfter(r, k - 1)
                  /\ r.legs[k].type = r.steps[k].type
                  /\ r.legs[k].type = "wait" => r.legs[k].amountOut = r.legs[k].amountIn
            /\ r.pc \in {"swap", "bridge", "monitor", "wait"}
                  => r.stepInput = AmountAfter(r, Len(r.legs))
            /\ (r.pc \in {"planDone", "returned"} /\ r.result.success)
                  => /\ Len(r.legs) = Len(r.steps)
                     /\ r.result.netProfit =
                            BigSub(Big(0, AmountAfter(r, Len(r.legs)) - r.opp.amount),
                                   SwapGasCost(r.legs))
                     /\ r.result.totalGasCost = SwapGasCost(r.legs)

\* an execution that succeeded through all six steps, its two swaps having
\* used gas
C26_Witness ==
    \E c \in Slots :
        /\ calls[c].pc = "returned"
        /\ calls[c].result.success
        /\ Len(calls[c].legs) = 6
        /\ BigLess(BigZero, calls[c].result.totalGasCost)
        /\ calls[c].legs[6].amountOut # calls[c].opp.amount


StepsWithStatus(r, status) == {j \in 1..Len(r.steps) : r.steps[j].status = status}

\* C24: the steps of a plan run one at a time and in plan order: at most one
\* step is executing, a step that has left pending has only completed steps
\* before it, and a bridge step becomes completed only when its monitoring
\* promise has settled as completed.
C24_StepsRunInOrderOneAtATime ==
    [][\A c \in Slots :
         LET o == calls[c]
             r == calls'[c]
         IN  /\ Cardinality(StepsWithStatus(r, "executing")) <= 1
             /\ \A j \in 1..Len(r.steps) :
                   r.steps[j].status # "pending"
                      => \A h \in 1..(j - 1) : r.steps[h].status = "completed"
             /\ Len(o.steps) = Len(r.steps) =>
                   \A j \in 1..Len(r.steps) :
                      (r.steps[j].type = "bridge" /\ o.steps[j].status # "completed"
                        /\ r.steps[j].status = "completed")
                         => /\ o.pc = "monitor"
                            /\ o.i = j
                            /\ monitoringOutcome(o) = "completed"]_vars

\* the first bridge of an avalanche-to-sonic plan is completed and the wait
\* step after it is executing
C24_Witness ==
    \E c \in Slots :
        /\ calls[c].pc = "wait"
        /\ calls[c].i = 3
        /\ calls[c].steps[2].type = "bridge"
        /\ calls[c].steps[2].status = "completed"
        /\ calls[c].steps[3].status = "executing"
        /\ calls[c].steps[4].status = "pending"

\* the statuses a step may move to from each status
NextStatuses(status) ==
    IF status = "pending" THEN {"pending", "executing"}
    ELSE IF status = "executing" THEN {"executing", "completed", "failed"}
    ELSE {status}

\* C25: within a plan a step's status only moves pending -> executing ->
\* completed or pending -> executing -> failed; completed and failed are
\* final.
C25_StatusOnlyMovesForward ==
    [][\A c \in Slots :
         (calls[c].steps # <<>> /\ calls'[c].steps # <<>>) =>
             \A j \in 1..Len(calls[c].steps) :
                 /\ calls[c].steps[j].status
                       \in {"pending", "executing", "completed", "failed"}
                 /\ calls'[c].steps[j].status \in NextStatuses(calls[c].steps[j].status)]_vars

\* a plan whose fourth step failed: three completed, one failed, two pending
C25_Witness ==
    \E c \in Slots :
        /\ calls[c].pc = "returned"
        /\ StepsWithStatus(calls[c], "completed") = {1, 2, 3}
        /\ StepsWithStatus(calls[c], "failed") = {4}
        /\ StepsWithStatus(calls[c], "pending") = {5, 6}


\* C22: while the engine's simulation mode is enabled no call submits a
\* transaction to a chain.
C22_NoRealTransactionInSimulationMode ==
    [][simulationMode =>
          \A c \in Slots : calls'[c].submitted <= calls[c].submitted]_vars


\* C21: in simulation mode every opportunity the supervisor executes succeeds.
\* An execution started while the supervisor's simulation mode is on goes to
\* the simulation sleep without a call of the engine; while a loop is in that
\* sleep no engine call of its slot is in progress (no re-validation, swap or
\* bridge); and when the sleep ends the opportunity is counted as exactly one
\* trade, a successful one, whose profit is the opportunity's own netProfit.
C21_SimulatedExecutionAlwaysSucceeds ==
    [][\A l \in Slots :
         /\ ( /\ supervisorSimulationMode
              /\ executionsStarted' = executionsStarted + 1
              /\ loops'[l].pc # loops[l].pc
              /\ loops[l].pc # "simSleep" )
            => /\ loops'[l].pc = "simSleep"
               /\ calls' = calls
               /\ admitted' = admitted
               /\ executionHistory' = executionHistory
         /\ loops[l].pc = "simSleep"
            => /\ calls[l] = IdleCall
               /\ calls'[l] = IdleCall
         /\ (loops[l].pc = "simSleep" /\ loops'[l].pc # "simSleep")
            => /\ metrics'.totalTrades = metrics.totalTrades + 1
               /\ metrics'.successfulTrades = metrics.successfulTrades + 1
               /\ metrics'.failedTrades = metrics.failedTrades
               /\ metrics'.totalProfit
                    = BigAdd(metrics.totalProfit, Head(loops[l].queue).netProfit)
               /\ admitted' = admitted
               /\ executionHistory' = executionHistory
      ]_vars

\* a simulated execution was counted as one successful trade and the engine
\* was never called
C21_Witness ==
    /\ supervisorSimulationMode
    /\ metrics.totalTrades = 1
    /\ metrics.successfulTrades = 1
    /\ metrics.failedTrades = 0
    /\ admitted = 0
    /\ executionHistory = <<>>


\* C23: outside testing mode the configured profit threshold decides whether
\* an opportunity is executed: with the threshold at 0.01 and pool prices
\* that diverge, an opportunity check starts an execution.
C23_LowThresholdStartsExecution ==
    ( /\ fnOut.fn = "checkArbitrageOpportunities"
      /\ ~fnIn.testing
      /\ fnIn.profitThreshold = 10000
      /\ ~DifferenceTooSmall(fnIn.prices) )
    => fnOut.result # <<>>


\* number of the first status request of a script that gets one of the
\* statuses, 0 when none ever does
FirstPollWith(script, statuses) ==
    IF \E n \in 1..Len(script) : script[n] \in statuses
    THEN CHOOSE n \in 1..Len(script) :
             /\ script[n] \in statuses
             /\ \A h \in 1..(n - 1) : script[h] \notin statuses
    ELSE 0

\* status requests a monitoring run can make before its timeout
PollsWithinTimeout == BRIDGE_TIMEOUT \div DEBRIDGE_POLL_INTERVAL

\* C27: DeBridge monitoring treats Cancelled as fatal: when a poll gets the
\* status Cancelled before any completed status, the run fails and that poll
\* is its last.
C27_CancelledIsFatal ==
    fnOut.fn = "monitorBridgeTransaction" =>
        LET cancelled == FirstPollWith(fnIn.script, {"Cancelled"})
            done == FirstPollWith(fnIn.script, {"OrderCompleted", "ClaimCompleted"})
        IN  (cancelled # 0 /\ (done = 0 \/ cancelled < done)) =>
                /\ fnOut.result.outcome # "completed"
                /\ fnOut.result.polls = cancelled

\* C28: DeBridge monitoring always settles, completed or with the timeout
\* error.  When no poll gets Cancelled first, it resolves completed at the
\* first poll that gets OrderCompleted or ClaimCompleted, having polled again
\* after every other answer, and fails with the timeout error, after the
\* polls the timeout leaves room for, when no poll gets a completed status.
C28_MonitoringSettles ==
    fnOut.fn = "monitorBridgeTransaction" =>
        LET cancelled == FirstPollWith(fnIn.script, {"Cancelled"})
            done == FirstPollWith(fnIn.script, {"OrderCompleted", "ClaimCompleted"})
            res == fnOut.result
        IN  /\ res.outcome \in {"completed", "timeout"}
            /\ (cancelled = 0 /\ done # 0 /\ done <= PollsWithinTimeout) =>
                   res = [outcome |-> "completed", polls |-> done]
            /\ (cancelled = 0 /\ done = 0) =>
                   res = [outcome |-> "timeout", polls |-> PollsWithinTimeout]

\* a run that polled again after a failed request and two unfinished statuses
\* and completed at its fourth poll
C28_Witness ==
    /\ fnOut.fn = "monitorBridgeTransaction"
    /\ fnIn.script = <<"HttpNotOk", "Created", "SentUnlock", "OrderCompleted">>
    /\ fnOut.result = [outcome |-> "completed", polls |-> 4]

\* C29: the monitoring of a bridge executed by CCIP resolves completed after
\* its dwell time, so the bridge step completes: whenever the monitoring
\* of a CCIP bridge settles, the step it belongs to is completed.
C29_CcipMonitoringCompletes ==
    [][\A c \in Slots :
          (calls[c].pc = "monitor" /\ calls[c].provider = "ccip" /\ calls'[c] # calls[c])
             => calls'[c].steps[calls[c].i].status = "completed"]_vars


\* C30: after any sequence of stored samples each pool's history holds at most
\* 100 samples, and they are the most recently stored ones in the order they
\* were stored: after n stores, the samples n - 99 .. n (all of them when n is
\* less than 100).
C30_HistoryIsTheLastHundredInOrder ==
    \A k \in DOMAIN priceHistory :
        LET h == priceHistory[k]
            n == lastPriceUpdate[k]
        IN  /\ Len(h) <= MAX_PRICE_HISTORY
            /\ Len(h) = Min(n, MAX_PRICE_HISTORY)
            /\ \A j \in 1..Len(h) : h[j] = PriceSample(k, n - Len(h) + j)

\* 102 samples were stored for a pool: its history is full and the two oldest
\* samples are gone
C30_Witness ==
    /\ "shadow" \in DOMAIN priceHistory
    /\ lastPriceUpdate["shadow"] = 102
    /\ Len(priceHistory["shadow"]) = MAX_PRICE_HISTORY
    /\ priceHistory["shadow"][1].timestamp = 3


\* the samples of a history whose age at TwapNow is within the window
QualifyingSamples(history) ==
    SelectSeq(history, LAMBDA p : TwapNow - p.timestamp <= TWAP_WINDOW)

\* C31: the TWAP of a pool is empty when no sample's age is within the window
\* and otherwise is the weighted average of the samples within the window,
\* which lies between the least and the greatest price of those samples.
C31_TwapWithinRangeOfQualifyingSamples ==
    fnOut.fn = "getTWAP" =>
        LET q == QualifyingSamples(fnIn.history)
        IN  IF q = <<>> THEN fnOut.result.isNull
            ELSE /\ ~fnOut.result.isNull
                 /\ LeastPrice(q) <= fnOut.result.price
                 /\ fnOut.result.price <= GreatestPrice(q)


IsPrefix(a, b) == Len(a) <= Len(b) /\ SubSeq(b, 1, Len(a)) = a

\* C32: executeSwapExactIn performs its operations in the order allowance,
\* approval (of twice the amount, only when the allowance is below the
\* amount) and its receipt, quote, swap, receipt of the swap; it sends the
\* swap transaction never while the allowance is below the amount; and the
\* gas it reports is the receipt's.
C32_SwapSentOnlyWithAllowance ==
    fnOut.fn = "executeSwapExactIn" =>
        LET r == fnOut.result
            low == fnIn.allowance < fnIn.amountIn
        IN  /\ IsPrefix(r.ops,
                        IF low
                        THEN <<"allowance", "approve", "approveReceipt", "quote", "swap",
                               "swapReceipt">>
                        ELSE <<"allowance", "quote", "swap", "swapReceipt">>)
            /\ r.approved = IF low /\ Len(r.ops) > 1 THEN 2 * fnIn.amountIn ELSE 0
            /\ ~r.threw => /\ r.ops[Len(r.ops)] = "swapReceipt"
                           /\ r.actualGasUsed = fnIn.gasUsed
            /\ r.allowanceAtSwap # -1 => r.allowanceAtSwap >= fnIn.amountIn


\* C33: the price conversion returns a positive price for every sqrtPriceX96;
\* a zero input, and a zero result of both the primary and the alternative
\* formula, give parity.
C33_ConversionGivesPositivePrice ==
    fnOut.fn = "sqrtPriceX96ToPrice" =>
        /\ fnOut.result.m > 0
        /\ fnOut.result.e >= 0
        /\ fnIn.n = 0 => fnOut.result = DyInt(1000000)
        /\ ( /\ fnIn.n > 0
             /\ PrimaryPrice(fnIn.n, fnIn.e).m = 0
             /\ alternativeV3PriceCalculation(fnIn.n, fnIn.e).m = 0 )
           => fnOut.result = DyInt(1000000)

\* sqrtPriceX96 = 1: the primary formula gives 0 and the price returned is
\* the alternative formula's, 2^192 * 10^6
C33_Witness ==
    /\ fnOut.fn = "sqrtPriceX96ToPrice"
    /\ fnIn.n = 1
    /\ fnIn.e = 0
    /\ PrimaryPrice(1, 0).m = 0
    /\ fnOut.result = Dy(1000000, 192)


NetworkOfChain(chainId) == IF chainId = AVALANCHE_CHAIN_ID THEN "avalanche" ELSE "sonic"

\* where the funds are after the first k steps of a plan, each step taken to
\* do what its arguments say: [token, network]
RECURSIVE FundsAfter(_, _, _)
FundsAfter(steps, direction, k) ==
    IF k = 0 THEN [token |-> "USDC", network |-> "avalanche"]
    ELSE LET before == FundsAfter(steps, direction, k - 1)
             step == steps[k]
         IN  IF step.type = "swap"
             THEN [before EXCEPT !.token = executeSwapStepTokens(step, direction).tokenOut]
             ELSE IF step.type = "bridge"
             THEN [before EXCEPT
                     !.network = NetworkOfChain(executeBridgeStepArgs(step).toChainId)]
             ELSE before

\* step k of a plan takes the funds from where the steps before it left them
ConsumesFunds(steps, direction, k) ==
    LET before == FundsAfter(steps, direction, k - 1)
        step == steps[k]
    IN  /\ step.type = "swap" =>
              /\ executeSwapStepTokens(step, direction).tokenIn = before.token
              /\ step.network = before.network
              /\ executeSwapStepDex(step)
                   = (IF before.network = "avalanche" THEN "pharaoh" ELSE "shadow")
        /\ step.type = "bridge" =>
              /\ executeBridgeStepArgs(step).token = before.token
              /\ NetworkOfChain(executeBridgeStepArgs(step).fromChainId) = before.network
              /\ executeBridgeStepArgs(step).toChainId
                   # executeBridgeStepArgs(step).fromChainId

\* C34: the plan of either direction is continuous in asset and network: from
\* USDC on Avalanche, every swap and bridge step takes the token, on the
\* network, where the steps before it left the funds, and after the sixth
\* step the funds are USDC on Avalanche again.
C34_PlanIsContinuous ==
    \A c \in Slots :
        Len(calls[c].steps) > 0 =>
            LET r == calls[c]
            IN  /\ Len(r.steps) = 6
                /\ \A k \in 1..6 : ConsumesFunds(r.steps, r.opp.direction, k)
                /\ FundsAfter(r.steps, r.opp.direction, 6)
                     = [token |-> "USDC", network |-> "avalanche"]

\* a sonic-to-avalanche plan has run through its last step
C34_Witness ==
    \E c \in Slots :
        /\ calls[c].opp.direction = "sonic-to-avalanche"
        /\ Len(calls[c].steps) = 6
        /\ \A k \in 1..6 : calls[c].steps[k].status = "completed"


\* the bridge legs of a call were all carried out by the simulation or the
\* CCIP provider
BridgedWithoutDeBridge(r) ==
    \A n \in 1..Len(r.legs) :
        r.legs[n].type = "bridge" => r.legs[n].provider \in {"simulation", "ccip"}

\* C35: with bridge legs carried out by the simulation or the CCIP provider
\* the amount carried through a plan never increases: a swap gives less than
\* its positive input, such a bridge at most its input; and a successful
\* result of such a plan has a negative netProfit.
C35_AmountNeverGrowsAndProfitNegative ==
    \A c \in Slots :
        LET r == calls[c]
        IN  /\ \A n \in 1..Len(r.legs) :
                  /\ (r.legs[n].type = "swap" /\ r.legs[n].amountIn > 0)
                        => r.legs[n].amountOut < r.legs[n].amountIn
                  /\ (r.legs[n].type = "bridge"
                        /\ r.legs[n].provider \in {"simulation", "ccip"})
                        => r.legs[n].amountOut <= r.legs[n].amountIn
                  /\ r.legs[n].type = "wait" => r.legs[n].amountOut = r.legs[n].amountIn
            /\ (r.result.success /\ BridgedWithoutDeBridge(r) /\ r.opp.amount > 0)
                  => BigLess(r.result.netProfit, BigZero)

\* a plan whose two bridges were simulated has succeeded, at a loss
C35_Witness ==
    \E c \in Slots :
        /\ calls[c].result.success
        /\ Len(calls[c].legs) = 6
        /\ BridgedWithoutDeBridge(calls[c])
        /\ BigLess(calls[c].result.netProfit, BigZero)


ActiveTimers == {n \in SessionIds : monitoringSessions[n].phase = "timer"}

\* C36: at most one price-polling timer is active at a time, and the timer of
\* a stopped monitoring session never fetches prices again.
C36_OneTimerAndStoppedTimersSilent ==
    /\ Cardinality(ActiveTimers) <= 1
    /\ \A n \in SessionIds : ~monitoringSessions[n].ranStopped


\* C37: the stored samples of each pool are ordered by non-decreasing
\* timestamp, and getLatestPrice returns the sample with the greatest one.
C37_SamplesOrderedByTimestamp ==
    \A k \in DOMAIN priceHistory :
        /\ \A i, j \in 1..Len(priceHistory[k]) :
              i < j => priceHistory[k][i].timestamp <= priceHistory[k][j].timestamp
        /\ \A i \in 1..Len(priceHistory[k]) :
              priceHistory[k][i].timestamp <= getLatestPrice(priceHistory, k).sample.timestamp


\* C38: a swap step is completed, and its quoted output carried to the next
\* step, only if the receipt of the swap transaction reports success; a swap
\* transaction that is mined but reverted makes the step fail.
C38_SwapStepCompletedOnlyOnSuccessReceipt ==
    fnOut.fn = "executeSwapExactIn" =>
        LET step == swapStepOutcome(fnIn.amountIn, fnOut.result)
        IN  /\ step.status = "completed" => fnIn.swap = "success"
            /\ fnIn.swap = "reverted" =>
                  /\ step.status = "failed"
                  /\ step.currentAmount = fnIn.amountIn


\* the first call of the operation that resolves among the calls 1..n, 0 when none does
FirstSuccess(outcomes, n) ==
    IF \E k \in 1..n : outcomes[k]
    THEN CHOOSE k \in 1..n : outcomes[k] /\ \A j \in 1..(k - 1) : ~outcomes[j]
    ELSE 0

\* C40: retryAsync calls the operation at most maxRetries + 1 times, returns
\* the result of the first call that resolves and makes no call after it,
\* sleeps baseDelay * 2^attempt after the failed attempt `attempt` with
\* exponential backoff and baseDelay without, and after the last failed
\* attempt rejects with the error of that attempt.
C40_RetryAsyncAttemptsAndDelays ==
    fnOut.fn = "retryAsync" =>
        LET r == fnOut.result
            allowed == fnIn.maxRetries + 1
            first == FirstSuccess(fnIn.outcomes, allowed)
        IN  /\ r.attempts <= allowed
            /\ first # 0 => ~r.threw /\ r.result = first /\ r.attempts = first
            /\ first = 0 => r.threw /\ r.error = allowed /\ r.attempts = allowed
            /\ Len(r.delays) = r.attempts - 1
            /\ \A k \in 1..Len(r.delays) :
                  r.delays[k] = IF fnIn.exponentialBackoff
                                THEN fnIn.baseDelay * (2 ^ (k - 1))
                                ELSE fnIn.baseDelay

\* three retries with backoff all failed: four calls, delays 2 s, 4 s and 8 s,
\* and the fourth error is thrown
C40_Witness ==
    /\ fnOut.fn = "retryAsync"
    /\ fnIn.exponentialBackoff
    /\ fnOut.result.threw
    /\ fnOut.result.attempts = MAX_RETRIES + 1
    /\ fnOut.result.error = MAX_RETRIES + 1
    /\ fnOut.result.delays = <<2000, 4000, 8000>>


====
